---------------------------- MODULE Spec2Model ----------------------------
(***************************************************************************)
(* Coding-contract kinds of codingContractTypesMetadata: the state a       *)
(* contract holds, the answers submitted to it and the verdict of its      *)
(* solver.  Strings are sequences of one-character strings, arrays are     *)
(* sequences, and a solver is an operator computed the way its code is.    *)
(***************************************************************************)
EXTENDS Integers, Sequences, FiniteSets, TLC

VARIABLES
  kind,     \* name of the contract kind
  state,    \* the contract's state, as generate() returned it
  pc,       \* "generated": no attempt yet; "verified": solver has returned
  ans,      \* the answer last submitted (a string)
  parsed,   \* the list the solver made of the answer (list-answer kinds)
  verdict   \* what solver(state, ans) returned

vars == <<kind, state, pc, ans, parsed, verdict>>

---------------------------------------------------------------------------
(* Strings                                                                 *)

Digits == <<"0", "1", "2", "3", "4", "5", "6", "7", "8", "9">>

IsDigit(c) == \E d \in 1..10 : Digits[d] = c

DigitVal(c) == (CHOOSE d \in 1..10 : Digits[d] = c) - 1

IsSpace(c) == c = " "

\* String.prototype.charCodeAt for the characters the answers are built of
CharCode(c) ==
  IF IsDigit(c) THEN 48 + DigitVal(c)
  ELSE CASE c = " " -> 32
         [] c = "\"" -> 34
         [] c = "'" -> 39
         [] c = "(" -> 40
         [] c = ")" -> 41
         [] c = "*" -> 42
         [] c = "+" -> 43
         [] c = "," -> 44
         [] c = "-" -> 45
         [] c = "." -> 46
         [] c = "/" -> 47
         [] c = ":" -> 58
         [] c = "[" -> 91
         [] c = "]" -> 93
         [] c = "a" -> 97
         [] c = "b" -> 98
         [] c = "c" -> 99
         [] c = "x" -> 120
         [] OTHER -> 63

\* String.prototype.repeat
RECURSIVE Repeat(_, _)
Repeat(c, n) == IF n <= 0 THEN <<>> ELSE <<c>> \o Repeat(c, n - 1)

\* s.slice(1) and s.slice(0, -1)
DropFirst(s) == IF Len(s) = 0 THEN s ELSE Tail(s)
DropLast(s) == IF Len(s) = 0 THEN s ELSE SubSeq(s, 1, Len(s) - 1)

StartsWith(s, c) == Len(s) > 0 /\ s[1] = c
EndsWith(s, c) == Len(s) > 0 /\ s[Len(s)] = c

\* s.replace(/\s/g, "")
RECURSIVE RemoveWhitespace(_)
RemoveWhitespace(s) ==
  IF s = <<>> THEN <<>>
  ELSE IF IsSpace(Head(s)) THEN RemoveWhitespace(Tail(s))
  ELSE <<Head(s)>> \o RemoveWhitespace(Tail(s))

\* s.split(","): always at least one element, "" splits to [""]
RECURSIVE SplitFrom(_, _, _)
SplitFrom(s, i, cur) ==
  IF i > Len(s) THEN <<cur>>
  ELSE IF s[i] = "," THEN <<cur>> \o SplitFrom(s, i + 1, <<>>)
  ELSE SplitFrom(s, i + 1, Append(cur, s[i]))

\* a split that gives no element for the empty string
SplitCommaMutant(s) == IF s = <<>> THEN <<>> ELSE SplitFrom(s, 1, <<>>)

SplitComma(s) == SplitFrom(s, 1, <<>>)

\* parseInt(s, radix): leading whitespace, an optional sign, then digits;
\* what follows the digits is ignored; no digit at all gives NaN.  Without a
\* radix (written 0 here) a "0x" or "0X" prefix makes the digits hexadecimal.
NaN == [nan |-> TRUE, val |-> 0]
Num(n) == [nan |-> FALSE, val |-> n]

HexDigits == <<"0", "1", "2", "3", "4", "5", "6", "7", "8", "9",
               "a", "b", "c", "d", "e", "f">>
HexUpper == <<"0", "1", "2", "3", "4", "5", "6", "7", "8", "9",
              "A", "B", "C", "D", "E", "F">>
IsHexDigit(c) == \E i \in 1..16 : HexDigits[i] = c \/ HexUpper[i] = c
HexVal(c) == (CHOOSE i \in 1..16 : HexDigits[i] = c \/ HexUpper[i] = c) - 1

RECURSIVE SkipSpaces(_)
SkipSpaces(s) == IF s # <<>> /\ IsSpace(Head(s)) THEN SkipSpaces(Tail(s)) ELSE s

RECURSIVE ParseDigitsMutant(_, _, _, _)
ParseDigitsMutant(s, radix, acc, seen) ==
  IF s = <<>> THEN (IF seen THEN Num(acc) ELSE NaN)
  ELSE IF radix = 10 /\ IsDigit(Head(s))
  THEN ParseDigitsMutant(Tail(s), radix, 10 * acc + DigitVal(Head(s)), TRUE)
  ELSE IF radix = 16 /\ IsHexDigit(Head(s))
  THEN ParseDigitsMutant(Tail(s), radix, 16 * acc + HexVal(Head(s)), TRUE)
  ELSE NaN

RECURSIVE ParseDigits(_, _, _, _)
ParseDigits(s, radix, acc, seen) ==
  IF s # <<>> /\ radix = 10 /\ IsDigit(Head(s))
  THEN ParseDigits(Tail(s), radix, 10 * acc + DigitVal(Head(s)), TRUE)
  ELSE IF s # <<>> /\ radix = 16 /\ IsHexDigit(Head(s))
  THEN ParseDigits(Tail(s), radix, 16 * acc + HexVal(Head(s)), TRUE)
  ELSE IF seen THEN Num(acc) ELSE NaN

parseInt(s, radix) ==
  LET t == SkipSpaces(s)
      neg == StartsWith(t, "-")
      u == IF neg \/ StartsWith(t, "+") THEN Tail(t) ELSE t
      hex == radix = 0 /\ Len(u) >= 2 /\ u[1] = "0" /\ u[2] \in {"x", "X"}
      p == IF hex THEN ParseDigits(SubSeq(u, 3, Len(u)), 16, 0, FALSE)
           ELSE ParseDigits(u, 10, 0, FALSE)
  IN  IF p.nan THEN NaN ELSE Num(IF neg THEN 0 - p.val ELSE p.val)

\* x === n for a parsed number x and an integer n: NaN equals nothing
NumEq(p, n) == ~p.nan /\ p.val = n

\* Number.prototype.toString for an integer
RECURSIVE NatToString(_)
NatToString(n) ==
  IF n < 10 THEN <<Digits[n + 1]>>
  ELSE NatToString(n \div 10) \o <<Digits[(n % 10) + 1]>>

toString(n) == IF n < 0 THEN <<"-">> \o NatToString(0 - n) ELSE NatToString(n)

\* all sequences over S of length 0..n
RECURSIVE SeqsUpTo(_, _)
SeqsUpTo(S, n) ==
  IF n = 0 THEN {<<>>}
  ELSE LET shorter == SeqsUpTo(S, n - 1)
       IN  shorter \cup {Append(s, x) : s \in {t \in shorter : Len(t) = n - 1}, x \in S}

RECURSIVE Flatten(_)
Flatten(ss) == IF ss = <<>> THEN <<>> ELSE Head(ss) \o Flatten(Tail(ss))

\* Array.prototype.join(",") of strings
RECURSIVE JoinComma(_)
JoinComma(ss) ==
  IF ss = <<>> THEN <<>>
  ELSE IF Len(ss) = 1 THEN ss[1]
  ELSE ss[1] \o <<",">> \o JoinComma(Tail(ss))

---------------------------------------------------------------------------
(* Helper functions for Coding Contract implementations                    *)

\* the trailing ']' is left in place
removeBracketsLeadingOnly(str) == IF StartsWith(str, "[") THEN DropFirst(str) ELSE str

removeBracketsFromArrayString(str) ==
  LET a == IF StartsWith(str, "[") THEN DropFirst(str) ELSE str
  IN  IF EndsWith(a, "]") THEN DropLast(a) ELSE a

removeQuotesFromString(str) ==
  LET a == IF StartsWith(str, "\"") \/ StartsWith(str, "'") THEN DropFirst(str) ELSE str
  IN  IF EndsWith(a, "\"") \/ EndsWith(a, "'") THEN DropLast(a) ELSE a

---------------------------------------------------------------------------
(* Compression I: RLE Compression                                          *)

\* bounds of the plaintexts and answers explored
MaxRuns == 2
MaxChunks == 3
RunLens == {1, 9, 10}
PlainChars == {"a", "b"}
AnsLenChars == {"0", "1", "9", ":"}

\* decoding loop of the solver: FALSE stands for the early `return false`
RECURSIVE RLEDecode(_, _, _)
RLEDecode(a, i, ans_plain) ==
  IF i + 1 < Len(a)
  THEN LET length == CharCode(a[i + 1]) - 48
       IN  IF length < 0 \/ length > 9 THEN [ok |-> FALSE, plain |-> ans_plain]
           ELSE RLEDecode(a, i + 2, ans_plain \o Repeat(a[i + 2], length))
  ELSE [ok |-> TRUE, plain |-> ans_plain]

\* a run counter that never advances: every character its own run
RLERunLengthMutant(plain, i, run_length) == run_length

\* while (i + run_length < plain.length && plain[i + run_length] === plain[i])
RECURSIVE RLERunLength(_, _, _)
RLERunLength(plain, i, run_length) ==
  IF i + run_length < Len(plain) /\ plain[i + run_length + 1] = plain[i + 1]
  THEN RLERunLength(plain, i, run_length + 1)
  ELSE run_length

RECURSIVE RLEChunkCostMutant(_, _)
RLEChunkCostMutant(run_length, length) ==
  IF run_length > 0 THEN RLEChunkCostMutant(run_length - 10, length + 2) ELSE length

\* while (run_length > 0) { run_length -= 9; length += 2; }
RECURSIVE RLEChunkCost(_, _)
RLEChunkCost(run_length, length) ==
  IF run_length > 0 THEN RLEChunkCost(run_length - 9, length + 2) ELSE length

\* for (let i = 0; i < plain.length; ) { ... }
RECURSIVE RLEMinLength(_, _, _)
RLEMinLength(plain, i, length) ==
  IF i < Len(plain)
  THEN LET run_length == RLERunLength(plain, i, 1)
       IN  RLEMinLength(plain, i + run_length, RLEChunkCost(run_length, length))
  ELSE length

RLESolver(plain, a) ==
  IF Len(a) % 2 # 0 THEN FALSE
  ELSE LET d == RLEDecode(a, 0, <<>>)
       IN  IF ~d.ok THEN FALSE
           ELSE IF d.plain # plain THEN FALSE
           ELSE Len(a) <= RLEMinLength(plain, 0, 0)

\* plaintexts: up to MaxRuns runs of one repeated character
RLERunSeqs == SeqsUpTo(PlainChars \X RunLens, MaxRuns) \ {<<>>}

RLEPlainOf(runs) == Flatten([k \in 1..Len(runs) |-> Repeat(runs[k][1], runs[k][2])])

RLEExamplePlain == <<"a", "a", "a", "a", "a", "b", "c", "c", "c">>
RLEExampleGood == <<"5", "a", "1", "b", "3", "c">>
RLEExampleLong == <<"5", "a", "1", "b", "2", "c", "1", "c">>

RLEPlains == {RLEPlainOf(r) : r \in RLERunSeqs} \cup {RLEExamplePlain}

\* answers: up to MaxChunks chunks <length character><character>, and such an
\* answer with its last character missing
RLEChunkSeqs == SeqsUpTo(AnsLenChars \X PlainChars, MaxChunks)

RLEAnswerOf(chunks) == Flatten([k \in 1..Len(chunks) |-> <<chunks[k][1], chunks[k][2]>>])

RLEAnswers ==
  LET even == {RLEAnswerOf(c) : c \in RLEChunkSeqs}
  IN  even \cup {DropLast(a) : a \in {e \in even : Len(e) <= 4}}
           \cup {RLEExampleGood, RLEExampleLong}

InitRLE ==
  /\ kind = "Compression I: RLE Compression"
  /\ state \in RLEPlains
  /\ pc = "generated"
  /\ ans = <<>>
  /\ parsed = <<>>
  /\ verdict = FALSE

SolveRLE ==
  /\ kind = "Compression I: RLE Compression"
  /\ pc = "generated"
  /\ \E a \in RLEAnswers :
       /\ ans' = a
       /\ verdict' = RLESolver(state, a)
  /\ pc' = "verified"
  /\ UNCHANGED <<kind, state, parsed>>

NextRLE == SolveRLE

SpecRLE == InitRLE /\ [][NextRLE]_vars


(* What the RLE claims are stated against: the maximal runs of the        *)
(* plaintext and the chunks of an answer, written without the solver's     *)
(* loops.                                                                  *)

\* positions (1-based) where a maximal run of s starts
RunStarts(s) == {i \in 1..Len(s) : i = 1 \/ s[i] # s[i - 1]}

\* length of the maximal run starting at run start i
RunLenAt(s, i) ==
  LET later == {j \in RunStarts(s) : j > i}
  IN  IF later = {} THEN Len(s) - i + 1
      ELSE (CHOOSE j \in later : \A k \in later : j <= k) - i

CeilDiv9(n) == (n + 8) \div 9

RunCost(s, i) == CeilDiv9(RunLenAt(s, i)) * 2

RECURSIVE SumRunCost(_, _)
SumRunCost(S, s) ==
  IF S = {} THEN 0
  ELSE LET x == CHOOSE y \in S : TRUE
       IN  RunCost(s, x) + SumRunCost(S \ {x}, s)

\* sum over maximal runs of ceil(run_length/9)*2
RLEOptimalLength(s) == SumRunCost(RunStarts(s), s)

NumChunks(a) == Len(a) \div 2
ChunkLenChar(a, j) == a[2 * j - 1]
ChunkChar(a, j) == a[2 * j]

WellFormedChunks(a) ==
  /\ Len(a) % 2 = 0
  /\ \A j \in 1..NumChunks(a) : IsDigit(ChunkLenChar(a, j))

\* number of plaintext characters the first j chunks stand for
RECURSIVE ChunkEnd(_, _)
ChunkEnd(a, j) == IF j = 0 THEN 0 ELSE ChunkEnd(a, j - 1) + DigitVal(ChunkLenChar(a, j))

\* the answer is a sequence of <digit><char> pairs that expands to s
DecodesTo(a, s) ==
  /\ WellFormedChunks(a)
  /\ ChunkEnd(a, NumChunks(a)) = Len(s)
  /\ \A k \in 1..Len(s) :
       \E j \in 1..NumChunks(a) :
         /\ ChunkEnd(a, j - 1) < k
         /\ k <= ChunkEnd(a, j)
         /\ ChunkChar(a, j) = s[k]

\* non-empty chunks of a that begin inside the maximal run starting at i
ChunksOfRun(a, s, i) ==
  {j \in 1..NumChunks(a) :
     /\ DigitVal(ChunkLenChar(a, j)) > 0
     /\ ChunkEnd(a, j - 1) + 1 >= i
     /\ ChunkEnd(a, j - 1) + 1 < i + RunLenAt(s, i)}

IsRLE == kind = "Compression I: RLE Compression"

\* C3: the RLE solver accepts an answer exactly when the answer is a
\* sequence of <digit><char> pairs that expands to the plaintext and is no
\* longer than the sum over maximal runs of ceil(run_length/9)*2; for
\* "aaaaabccc" it accepts "5a1b3c" and rejects "5a1b2c1c".
C3_RLEAcceptsIffDecodesAndMinimal ==
  (IsRLE /\ pc = "verified") =>
    /\ verdict <=> (DecodesTo(ans, state) /\ Len(ans) <= RLEOptimalLength(state))
    /\ (state = RLEExamplePlain /\ ans = RLEExampleGood) => verdict
    /\ (state = RLEExamplePlain /\ ans = RLEExampleLong) => ~verdict

C3_Witness ==
  /\ IsRLE /\ pc = "verified"
  /\ state = RLEExamplePlain /\ ans = RLEExampleGood /\ verdict

\* C4: an accepted RLE answer has only chunks of length digit 1..9, none of
\* length '0', every chunk lies inside one maximal run of the plaintext, and
\* a maximal run is covered by at most ceil(run_length/9) chunks.
C4_RLEAcceptedChunksMinimal ==
  (IsRLE /\ pc = "verified" /\ verdict) =>
    /\ Len(ans) % 2 = 0
    /\ \A j \in 1..NumChunks(ans) :
         /\ IsDigit(ChunkLenChar(ans, j))
         /\ DigitVal(ChunkLenChar(ans, j)) \in 1..9
         /\ \E i \in RunStarts(state) :
              /\ j \in ChunksOfRun(ans, state, i)
              /\ ChunkEnd(ans, j) < i + RunLenAt(state, i)
    /\ \A i \in RunStarts(state) :
         Cardinality(ChunksOfRun(ans, state, i)) <= CeilDiv9(RunLenAt(state, i))

\* an accepted answer that splits a run of ten into two chunks
C4_Witness ==
  /\ IsRLE /\ pc = "verified" /\ verdict
  /\ \E i \in RunStarts(state) :
       RunLenAt(state, i) >= 10 /\ Cardinality(ChunksOfRun(ans, state, i)) = 2

---------------------------------------------------------------------------
(* Proper 2-Coloring of a Graph                                            *)
(* state = <<v, edges>>, edges a sequence of <<a, b>> with a < b; vertices  *)
(* are 0..v-1, so vertex u is entry u + 1 of a sequence.                   *)

\* bounds of the graphs and answers explored
MaxVertices == 3
MaxExtraEntries == 1
ColorTokens == {<<"0">>, <<"1">>, <<"2">>, <<"x">>}

Undefined == -1

RECURSIVE SelectSeq2(_, _, _)
SelectSeq2(edges, vertex, side) ==
  IF edges = <<>> THEN <<>>
  ELSE LET e == Head(edges)
           rest == SelectSeq2(Tail(edges), vertex, side)
       IN  IF e[side] = vertex THEN <<e[3 - side]>> \o rest ELSE rest

\* const adjLeft = ...filter(([a]) => a == vertex).map(([, b]) => b); adjRight likewise
neighbourhood(data, vertex) ==
  SelectSeq2(data[2], vertex, 1) \o SelectSeq2(data[2], vertex, 2)

\* coloring.findIndex((val) => val === undefined), 0-based, -1 when none
RECURSIVE FindUndefined(_, _)
FindUndefined(coloring, i) ==
  IF i >= Len(coloring) THEN -1
  ELSE IF coloring[i + 1] = Undefined THEN i
  ELSE FindUndefined(coloring, i + 1)

\* the propagation with the new colour not depending on v's colour
RECURSIVE VisitNeighborsMutant(_, _, _, _, _)
VisitNeighborsMutant(neighbors, id, v, coloring, frontier) ==
  IF id > Len(neighbors)
  THEN [conflict |-> FALSE, coloring |-> coloring, frontier |-> frontier]
  ELSE LET u == neighbors[id]
       IN  IF coloring[u + 1] = Undefined
           THEN VisitNeighborsMutant(neighbors, id + 1, v,
                  [coloring EXCEPT ![u + 1] = 1], Append(frontier, u))
           ELSE IF coloring[u + 1] = coloring[v + 1]
           THEN [conflict |-> TRUE, coloring |-> coloring, frontier |-> frontier]
           ELSE VisitNeighborsMutant(neighbors, id + 1, v, coloring, frontier)

\* for (const id in neighbors) { ... }: colours the uncoloured neighbours of
\* v and pushes them, or reports two adjacent vertices of one colour
RECURSIVE VisitNeighbors(_, _, _, _, _)
VisitNeighbors(neighbors, id, v, coloring, frontier) ==
  IF id > Len(neighbors)
  THEN [conflict |-> FALSE, coloring |-> coloring, frontier |-> frontier]
  ELSE LET u == neighbors[id]
       IN  IF coloring[u + 1] = Undefined
           THEN VisitNeighbors(neighbors, id + 1, v,
                  [coloring EXCEPT ![u + 1] = IF coloring[v + 1] = 0 THEN 1 ELSE 0],
                  Append(frontier, u))
           ELSE IF coloring[u + 1] = coloring[v + 1]
           THEN [conflict |-> TRUE, coloring |-> coloring, frontier |-> frontier]
           ELSE VisitNeighbors(neighbors, id + 1, v, coloring, frontier)

\* while (frontier.length > 0) { const v = frontier.pop() || 0; ... }
RECURSIVE Propagate(_, _, _)
Propagate(data, coloring, frontier) ==
  IF Len(frontier) > 0
  THEN LET v == frontier[Len(frontier)]
           r == VisitNeighbors(neighbourhood(data, v), 1, v, coloring,
                               SubSeq(frontier, 1, Len(frontier) - 1))
       IN  IF r.conflict THEN r ELSE Propagate(data, r.coloring, r.frontier)
  ELSE [conflict |-> FALSE, coloring |-> coloring, frontier |-> frontier]

\* while (coloring.some((val) => val === undefined)) { ... }; TRUE when the
\* propagation met two adjacent vertices of one colour
RECURSIVE GreedyFindsConflict(_, _)
GreedyFindsConflict(data, coloring) ==
  LET initialVertex == FindUndefined(coloring, 0)
  IN  IF initialVertex = -1 THEN FALSE
      ELSE LET r == Propagate(data, [coloring EXCEPT ![initialVertex + 1] = 0],
                              <<initialVertex>>)
           IN  IF r.conflict THEN TRUE ELSE GreedyFindsConflict(data, r.coloring)

\* validColors.includes(c) for a parsed entry: NaN is in no array of numbers
ValidColorAnyNumber(c) == ~c.nan

ValidColor(c) == ~c.nan /\ c.val \in {0, 1}

\* edges.every(([a, b]) => ...)
RECURSIVE EveryEdgeProper(_, _)
EveryEdgeProper(edges, coloring) ==
  IF edges = <<>> THEN TRUE
  ELSE LET aColor == coloring[Head(edges)[1] + 1]
           bColor == coloring[Head(edges)[2] + 1]
       IN  IF ValidColor(aColor) /\ ValidColor(bColor) /\ aColor # bColor
           THEN EveryEdgeProper(Tail(edges), coloring)
           ELSE FALSE

\* the entries of a submitted coloring: split(",").map((val) => parseInt(val))
ColoringEntries(sanitizedPlayerAns) ==
  LET arr == SplitComma(sanitizedPlayerAns)
  IN  [i \in 1..Len(arr) |-> parseInt(arr[i], 0)]

ColoringSolver(data, a) ==
  LET sanitizedPlayerAns == removeBracketsFromArrayString(a)
  IN  IF sanitizedPlayerAns = <<>>
      THEN GreedyFindsConflict(data, [i \in 1..data[1] |-> Undefined])
      ELSE LET coloring == ColoringEntries(sanitizedPlayerAns)
           IN  IF Len(coloring) = data[1]
               THEN EveryEdgeProper(data[2], coloring)
               ELSE FALSE

\* the pairs a < b over v vertices, in one fixed order
RECURSIVE PairsFrom(_, _, _)
PairsFrom(v, a, b) ==
  IF a >= v - 1 THEN <<>>
  ELSE IF b >= v THEN PairsFrom(v, a + 1, a + 2)
  ELSE <<(<<a, b>>)>> \o PairsFrom(v, a, b + 1)

AllPairs(v) == PairsFrom(v, 0, 1)

RECURSIVE SubSeqsOf(_)
SubSeqsOf(s) ==
  IF s = <<>> THEN {<<>>}
  ELSE LET rest == SubSeqsOf(Tail(s))
       IN  rest \cup {<<Head(s)>> \o r : r \in rest}

\* the example of the description, and three graphs of the size generate()
\* returns: partite sets {0,1,2} and {3,4,5} with vertices 2 and 5 isolated,
\* the same with the extra edge [0,1], and the graph without any edge
ColoringExample == <<4, <<(<<0, 2>>), <<0, 3>>, <<1, 2>>, <<1, 3>> >> >>
ColoringSix == <<6, <<(<<0, 3>>), <<0, 4>>, <<1, 3>>, <<1, 4>> >> >>
ColoringSixOdd == <<6, <<(<<0, 3>>), <<0, 4>>, <<1, 3>>, <<1, 4>>, <<0, 1>> >> >>
ColoringSixEmpty == <<6, <<>> >>

ColoringStates ==
  {<<v, e>> : v \in 1..MaxVertices, e \in {<<>>}} \cup
  UNION {{<<v, e>> : e \in SubSeqsOf(AllPairs(v))} : v \in 1..MaxVertices} \cup
  {ColoringExample, ColoringSix, ColoringSixOdd, ColoringSixEmpty}

Bracketed(str) == <<"[">> \o str \o <<"]">>

\* "[0, 0, 1, 1]": an element list written with a blank after each comma
RECURSIVE JoinCommaSpace(_)
JoinCommaSpace(ss) ==
  IF ss = <<>> THEN <<>>
  ELSE IF Len(ss) = 1 THEN ss[1]
  ELSE ss[1] \o <<",", " ">> \o JoinCommaSpace(Tail(ss))

ColoringSampleLists ==
  { <<(<<"0">>), <<"0">>, <<"1">>, <<"1">> >>,
    <<(<<"1">>), <<"1">>, <<"0">>, <<"0">> >>,
    <<(<<"0">>), <<"1">>, <<"1">>, <<"0">> >>,
    <<(<<"0">>), <<"0">>, <<"0">>, <<"1">>, <<"1">>, <<"1">> >>,
    <<(<<"1">>), <<"1">>, <<"1">>, <<"0">>, <<"0">>, <<"0">> >>,
    <<(<<"0">>), <<"1">>, <<"0">>, <<"1">>, <<"0">>, <<"1">> >>,
    <<(<<"0">>), <<"0">>, <<"x">>, <<"1">>, <<"1">>, <<"x">> >>,
    <<(<<"x">>), <<"x">>, <<"x">>, <<"x">>, <<"x">>, <<"x">> >>,
    <<(<<"0">>), <<"0">>, <<"0">>, <<"1">>, <<"1">> >> }

ColoringAnswers ==
  LET lists == (SeqsUpTo(ColorTokens, MaxVertices + MaxExtraEntries) \ {<<>>})
               \cup ColoringSampleLists
  IN  {<<>>, <<"[", "]">>}
      \cup {JoinComma(l) : l \in lists}
      \cup {Bracketed(JoinComma(l)) : l \in lists}
      \cup {Bracketed(JoinCommaSpace(l)) : l \in ColoringSampleLists}

IsColoring == kind = "Proper 2-Coloring of a Graph"

InitColoring ==
  /\ kind = "Proper 2-Coloring of a Graph"
  /\ state \in ColoringStates
  /\ pc = "generated"
  /\ ans = <<>>
  /\ parsed = <<>>
  /\ verdict = FALSE

SolveColoring ==
  /\ kind = "Proper 2-Coloring of a Graph"
  /\ pc = "generated"
  /\ \E a \in ColoringAnswers :
       /\ ans' = a
       /\ verdict' = ColoringSolver(state, a)
  /\ pc' = "verified"
  /\ UNCHANGED <<kind, state, parsed>>

NextColoring == SolveColoring

SpecColoring == InitColoring /\ [][NextColoring]_vars

(* What the 2-coloring claims are stated against.                          *)

EdgeSet(data) == {data[2][i] : i \in 1..Len(data[2])}

\* the graph has a proper 2-coloring
Bipartite(data) ==
  \E c \in [0..(data[1] - 1) -> {0, 1}] : \A e \in EdgeSet(data) : c[e[1]] # c[e[2]]

SubmittedList(a) == SplitComma(removeBracketsFromArrayString(a))

\* the submitted list colours the graph properly
ProperSubmission(data, a) ==
  LET l == SubmittedList(a)
  IN  /\ Len(l) = data[1]
      /\ \A e \in EdgeSet(data) :
           LET ca == parseInt(l[e[1] + 1], 0)
               cb == parseInt(l[e[2] + 1], 0)
           IN  /\ ~ca.nan /\ ca.val \in {0, 1}
               /\ ~cb.nan /\ cb.val \in {0, 1}
               /\ ca.val # cb.val

Str4(a, b, c, d) == Bracketed(JoinComma(<<(<<a>>), <<b>>, <<c>>, <<d>> >>))

\* C5: for a non-empty submitted coloring the solver returns true exactly
\* when the list has as many entries as the graph has vertices and every
\* edge joins a vertex coloured 0 and a vertex coloured 1; on the graph
\* [4,[[0,2],[0,3],[1,2],[1,3]]] it accepts [0,0,1,1] and [1,1,0,0] and
\* rejects [0,1,1,0], and a list of another length is rejected.
C5_ColoringAcceptsIffProper ==
  (IsColoring /\ pc = "verified" /\ removeBracketsFromArrayString(ans) # <<>>) =>
    /\ verdict <=> ProperSubmission(state, ans)
    /\ Len(SubmittedList(ans)) # state[1] => ~verdict
    /\ (state = ColoringExample /\ ans = Str4("0", "0", "1", "1")) => verdict
    /\ (state = ColoringExample /\ ans = Str4("1", "1", "0", "0")) => verdict
    /\ (state = ColoringExample /\ ans = Str4("0", "1", "1", "0")) => ~verdict

C5_Witness ==
  /\ IsColoring /\ pc = "verified"
  /\ state = ColoringExample /\ ans = Str4("1", "1", "0", "0") /\ verdict

\* C6: for the empty answer ("" or "[]") the solver returns true exactly
\* when the graph has no proper 2-coloring.
C6_EmptyAnswerIffNotBipartite ==
  (IsColoring /\ pc = "verified" /\ removeBracketsFromArrayString(ans) = <<>>) =>
    (verdict <=> ~Bipartite(state))

\* "[]" accepted for a graph holding a triangle
C6_Witness ==
  /\ IsColoring /\ pc = "verified"
  /\ ans = <<"[", "]">> /\ verdict /\ state = ColoringSixOdd

\* C2 (on this kind): the solver returns a boolean, and an answer one of
\* whose entries is not a number at all is rejected, for a graph of the size
\* generate() returns.
C2_MalformedAnswerRejected ==
  (IsColoring /\ pc = "verified") =>
    /\ verdict \in BOOLEAN
    /\ ( /\ state[1] >= 6
         /\ removeBracketsFromArrayString(ans) # <<>>
         /\ \E i \in 1..Len(SubmittedList(ans)) : parseInt(SubmittedList(ans)[i], 0).nan )
       => ~verdict

---------------------------------------------------------------------------
(* Shortest Path in a Grid                                                 *)
(* state = the grid, a sequence of rows of 0 (free) and 1 (obstacle); the  *)
(* cell (y, x) of the code is data[y + 1][x + 1].                          *)

\* bounds of the grids and answers explored
MaxRows == 2
MaxCols == 2
MaxPathLen == 3
PathChars == {"U", "D", "L", "R", "x"}

\* fill(Infinity): larger than any distance in a grid
Infinity == 1000000

\* a check of the bounds only
validPositionMutant(data, y, x) ==
  y >= 0 /\ y < Len(data) /\ x >= 0 /\ x < Len(data[1])

validPosition(data, y, x) ==
  y >= 0 /\ y < Len(data) /\ x >= 0 /\ x < Len(data[1]) /\ data[y + 1][x + 1] = 0

\* neighbours without the two backward directions
neighborsMutant(data, y, x) ==
  (IF validPosition(data, y + 1, x) THEN <<(<<y + 1, x>>)>> ELSE <<>>) \o
  (IF validPosition(data, y, x + 1) THEN <<(<<y, x + 1>>)>> ELSE <<>>)

\* function* neighbors(y, x): Up, Down, Left, Right
neighbors(data, y, x) ==
  (IF validPosition(data, y - 1, x) THEN <<(<<y - 1, x>>)>> ELSE <<>>) \o
  (IF validPosition(data, y + 1, x) THEN <<(<<y + 1, x>>)>> ELSE <<>>) \o
  (IF validPosition(data, y, x - 1) THEN <<(<<y, x - 1>>)>> ELSE <<>>) \o
  (IF validPosition(data, y, x + 1) THEN <<(<<y, x + 1>>)>> ELSE <<>>)

\* for (const [yN, xN] of neighbors(y, x)) { ... }
RECURSIVE GridExpand(_, _, _, _, _)
GridExpand(ns, i, d, queue, distance) ==
  IF i > Len(ns) THEN [queue |-> queue, distance |-> distance]
  ELSE LET yN == ns[i][1]
           xN == ns[i][2]
       IN  IF distance[yN + 1][xN + 1] = Infinity
           THEN GridExpand(ns, i + 1, d, Append(queue, <<yN, xN>>),
                           [distance EXCEPT ![yN + 1][xN + 1] = d + 1])
           ELSE GridExpand(ns, i + 1, d, queue, distance)

\* while (queue.length > 0) { const [y, x] = queue.shift(); ... }
RECURSIVE GridBFS(_, _, _)
GridBFS(data, queue, distance) ==
  IF Len(queue) > 0
  THEN LET y == Head(queue)[1]
           x == Head(queue)[2]
           r == GridExpand(neighbors(data, y, x), 1, distance[y + 1][x + 1],
                           Tail(queue), distance)
       IN  GridBFS(data, r.queue, r.distance)
  ELSE distance

\* distance[dstY][dstX] after the search from (0, 0)
GridDistance(data) ==
  LET height == Len(data)
      width == Len(data[1])
      init == [y \in 1..height |-> [x \in 1..width |-> Infinity]]
      distance == GridBFS(data, <<(<<0, 0>>)>>, [init EXCEPT ![1][1] = 0])
  IN  distance[height][width]

\* for (const direction of ans) { switch ... }: FALSE for an invalid
\* character or position, else whether the walk stops on the destination
RECURSIVE GridWalk(_, _, _, _, _)
GridWalk(data, a, i, ansY, ansX) ==
  IF i > Len(a) THEN ansY = Len(data) - 1 /\ ansX = Len(data[1]) - 1
  ELSE LET direction == a[i]
       IN  IF direction \notin {"U", "D", "L", "R"} THEN FALSE
           ELSE LET y2 == CASE direction = "U" -> ansY - 1
                            [] direction = "D" -> ansY + 1
                            [] OTHER -> ansY
                    x2 == CASE direction = "L" -> ansX - 1
                            [] direction = "R" -> ansX + 1
                            [] OTHER -> ansX
                IN  IF ~validPosition(data, y2, x2) THEN FALSE
                    ELSE GridWalk(data, a, i + 1, y2, x2)

GridSolver(data, a) ==
  LET dist == GridDistance(data)
  IN  IF dist = Infinity THEN a = <<>>
      ELSE IF Len(a) > dist THEN FALSE
      ELSE GridWalk(data, a, 1, 0, 0)

\* grids of every shape up to MaxRows x MaxCols whose two corners are free
GridsOfShape(h, w) ==
  {g \in [1..h -> [1..w -> {0, 1}]] : g[1][1] = 0 /\ g[h][w] = 0}

GridUnreachableExample == <<(<<0, 1>>), <<1, 0>> >>
GridDescExample == <<(<<0, 1, 0, 0, 0>>), <<0, 0, 0, 1, 0>> >>
GridDescAnswer == <<"D", "R", "R", "U", "R", "R", "D">>
GridDetour == <<(<<0, 0, 0>>), <<1, 1, 0>>, <<0, 0, 0>> >>

GridStates ==
  UNION {GridsOfShape(h, w) : h \in 1..MaxRows, w \in 1..MaxCols}
  \cup {GridUnreachableExample, GridDescExample, GridDetour}

GridAnswers ==
  SeqsUpTo(PathChars, MaxPathLen) \cup
  { GridDescAnswer,
    <<"D", "R", "R", "R", "R">>,
    <<"D", "R", "R", "U", "R", "R", "D", "U", "D">>,
    <<"R", "R", "D", "D">>,
    <<"D", "D", "R", "R">>,
    <<"R", "D", "R", "D">>,
    <<"R", "R", "D", "D", "L", "R">> }

IsGrid == kind = "Shortest Path in a Grid"

InitGrid ==
  /\ kind = "Shortest Path in a Grid"
  /\ state \in GridStates
  /\ pc = "generated"
  /\ ans = <<>>
  /\ parsed = <<>>
  /\ verdict = FALSE

SolveGrid ==
  /\ kind = "Shortest Path in a Grid"
  /\ pc = "generated"
  /\ \E a \in GridAnswers :
       /\ ans' = a
       /\ verdict' = GridSolver(state, a)
  /\ pc' = "verified"
  /\ UNCHANGED <<kind, state, parsed>>

NextGrid == SolveGrid

SpecGrid == InitGrid /\ [][NextGrid]_vars

(* What the grid claims are stated against: walks over free cells.         *)

FreeCells(g) == {c \in (1..Len(g)) \X (1..Len(g[1])) : g[c[1]][c[2]] = 0}

Adjacent(c, d) ==
  \/ c[1] = d[1] /\ (c[2] = d[2] + 1 \/ d[2] = c[2] + 1)
  \/ c[2] = d[2] /\ (c[1] = d[1] + 1 \/ d[1] = c[1] + 1)

Dest(g) == <<Len(g), Len(g[1])>>

\* the free cells one move away from a cell of R, and R
Grow(g, R) == R \cup {d \in FreeCells(g) : \E c \in R : Adjacent(c, d)}

\* least k such that some walk of k moves from a cell of R (the cells that
\* k0 moves reach) ends on the bottom-right cell, counted from k0; -1 if none
RECURSIVE WalkLengthFrom(_, _, _)
WalkLengthFrom(g, R, k0) ==
  IF Dest(g) \in R THEN k0
  ELSE LET R2 == Grow(g, R)
       IN  IF R2 = R THEN -1 ELSE WalkLengthFrom(g, R2, k0 + 1)

\* length of a shortest walk from the top-left to the bottom-right cell, -1 if none
ShortestLength(g) == WalkLengthFrom(g, {<<1, 1>>}, 0)

Reachable(g) == ShortestLength(g) # -1

Step(c, ch) ==
  CASE ch = "U" -> <<c[1] - 1, c[2]>>
    [] ch = "D" -> <<c[1] + 1, c[2]>>
    [] ch = "L" -> <<c[1], c[2] - 1>>
    [] ch = "R" -> <<c[1], c[2] + 1>>
    [] OTHER -> c

\* the cell a string of moves leads to after its first i moves
RECURSIVE CellAfter(_, _)
CellAfter(a, i) == IF i = 0 THEN <<1, 1>> ELSE Step(CellAfter(a, i - 1), a[i])

\* only U, D, L, R; every move ends on a free cell of the grid; the last one
\* on the bottom-right cell
ValidPathTo(g, a) ==
  /\ \A i \in 1..Len(a) : a[i] \in {"U", "D", "L", "R"} /\ CellAfter(a, i) \in FreeCells(g)
  /\ CellAfter(a, Len(a)) = Dest(g)

\* C7: when the bottom-right cell cannot be reached, the empty string is
\* the only accepted answer; so on [[0,1],[1,0]].
C7_UnreachableOnlyEmptyAccepted ==
  (IsGrid /\ pc = "verified" /\ ~Reachable(state)) =>
    (verdict <=> ans = <<>>)

C7_Witness ==
  /\ IsGrid /\ pc = "verified"
  /\ state = GridUnreachableExample /\ ans = <<>> /\ verdict

\* C8: when the bottom-right cell can be reached, an answer is accepted
\* exactly when it is a valid path to that cell of length at most the
\* distance the search found; that distance is the length of a shortest
\* path, so an accepted answer has exactly that length and every shortest
\* path is accepted.
C8_ReachableAcceptsIffShortest ==
  (IsGrid /\ pc = "verified" /\ Reachable(state)) =>
    /\ GridDistance(state) = ShortestLength(state)
    /\ verdict <=> (ValidPathTo(state, ans) /\ Len(ans) <= GridDistance(state))
    /\ verdict => Len(ans) = ShortestLength(state)
    /\ (ValidPathTo(state, ans) /\ Len(ans) = ShortestLength(state)) => verdict

\* the path of the description, which has to move up once
C8_Witness ==
  /\ IsGrid /\ pc = "verified"
  /\ state = GridDescExample /\ ans = GridDescAnswer /\ verdict

---------------------------------------------------------------------------
(* Sanitize Parentheses in Expression                                      *)

\* bounds of the strings explored
MaxParenLen == 4
ParenChars == {"(", ")", "a"}

\* a membership test that never finds the element
IncludesNever(arr, x) == FALSE

Includes(arr, x) == \E i \in 1..Len(arr) : arr[i] = x

\* for (let i = 0; i < data.length; ++i) { ... }: <<left, right>>
RECURSIVE ParenExcess(_, _, _, _)
ParenExcess(data, i, left, right) ==
  IF i > Len(data) THEN <<left, right>>
  ELSE IF data[i] = "(" THEN ParenExcess(data, i + 1, left + 1, right)
  ELSE IF data[i] = ")"
  THEN IF left > 0 THEN ParenExcess(data, i + 1, left - 1, right)
       ELSE ParenExcess(data, i + 1, left, right + 1)
  ELSE ParenExcess(data, i + 1, left, right)

\* dfs(pair, index, left, right, s, solution, res); index is 0-based, the
\* result is res after the call
RECURSIVE dfs(_, _, _, _, _, _, _)
dfs(pair, index, left, right, str, solution, res) ==
  IF Len(str) = index
  THEN IF left = 0 /\ right = 0 /\ pair = 0 /\ ~Includes(res, solution)
       THEN Append(res, solution)
       ELSE res
  ELSE LET c == str[index + 1]
       IN  IF c = "("
           THEN LET r1 == IF left > 0
                          THEN dfs(pair, index + 1, left - 1, right, str, solution, res)
                          ELSE res
                IN  dfs(pair + 1, index + 1, left, right, str, Append(solution, c), r1)
           ELSE IF c = ")"
           THEN LET r1 == IF right > 0
                          THEN dfs(pair, index + 1, left, right - 1, str, solution, res)
                          ELSE res
                IN  IF pair > 0
                    THEN dfs(pair - 1, index + 1, left, right, str, Append(solution, c), r1)
                    ELSE r1
           ELSE dfs(pair, index + 1, left, right, str, Append(solution, c), res)

SanitizeRes(data) ==
  LET lr == ParenExcess(data, 1, 0, 0)
  IN  dfs(0, 0, lr[1], lr[2], data, <<>>, <<>>)

\* removeBracketsFromArrayString(ans).split(","), then each element without
\* whitespace and quotes
SanitizeAnsArr(a) ==
  LET arr == SplitComma(removeBracketsFromArrayString(a))
  IN  [i \in 1..Len(arr) |-> removeQuotesFromString(RemoveWhitespace(arr[i]))]

\* a comparison that wants the elements in the order of res
SanitizeSolverInOrder(data, a) == SanitizeAnsArr(a) = SanitizeRes(data)

SanitizeSolver(data, a) ==
  LET res == SanitizeRes(data)
      sanitizedPlayerAnsArr == SanitizeAnsArr(a)
  IN  IF Len(sanitizedPlayerAnsArr) # Len(res) THEN FALSE
      ELSE \A i \in 1..Len(res) : Includes(sanitizedPlayerAnsArr, res[i])

---------------------------------------------------------------------------
(* Find All Valid Math Expressions                                         *)
(* state = <<digits, target>>                                              *)

\* bounds of the digit strings and targets explored
MaxExprDigits == 3
MaxExprTarget == 6
ExprDigitChars == {"0", "1", "2", "3"}

\* filterTruthy: the elements that are not falsy; of strings, the non-empty ones
RECURSIVE filterTruthy(_)
filterTruthy(arr) ==
  IF arr = <<>> THEN <<>>
  ELSE IF Head(arr) = <<>> THEN filterTruthy(Tail(arr))
  ELSE <<Head(arr)>> \o filterTruthy(Tail(arr))

\* for (let i = pos; i < num.length; ++i) { ... } of helper, and helper
\* itself; pos and i are 0-based, the result is res after the call
RECURSIVE helperLoop(_, _, _, _, _, _, _, _)
RECURSIVE helper(_, _, _, _, _, _, _)

\* a helper that pushes every path, whatever it evaluates to
helperAnyTarget(res, path, num, target, pos, evaluated, multed) ==
  IF pos = Len(num) THEN Append(res, path)
  ELSE helperLoop(res, path, num, target, pos, evaluated, multed, pos)

helper(res, path, num, target, pos, evaluated, multed) ==
  IF pos = Len(num)
  THEN IF target = evaluated THEN Append(res, path) ELSE res
  ELSE helperLoop(res, path, num, target, pos, evaluated, multed, pos)

helperLoop(res, path, num, target, pos, evaluated, multed, i) ==
  IF i >= Len(num) THEN res
  ELSE IF i # pos /\ num[pos + 1] = "0" THEN res
  ELSE LET curText == SubSeq(num, pos + 1, i + 1)
           cur == parseInt(curText, 0).val
           shown == toString(cur)
           r ==
             IF pos = 0
             THEN helper(res, path \o shown, num, target, i + 1, cur, cur)
             ELSE LET r1 == helper(res, path \o <<"+">> \o shown, num, target, i + 1,
                                   evaluated + cur, cur)
                      r2 == helper(r1, path \o <<"-">> \o shown, num, target, i + 1,
                                   evaluated - cur, 0 - cur)
                  IN  helper(r2, path \o <<"*">> \o shown, num, target, i + 1,
                             evaluated - multed + multed * cur, multed * cur)
       IN  helperLoop(r, path, num, target, pos, evaluated, multed, i + 1)

ExprAnsArr(a) ==
  LET arr == filterTruthy(SplitComma(removeBracketsFromArrayString(a)))
  IN  [i \in 1..Len(arr) |-> removeQuotesFromString(RemoveWhitespace(arr[i]))]

ExprSolver(data, a) ==
  LET num == data[1]
      target == data[2]
      sanitizedPlayerAnsArr == ExprAnsArr(a)
  IN  IF Len(num) = 0
      THEN \/ Len(sanitizedPlayerAnsArr) = 0
           \/ Len(sanitizedPlayerAnsArr) = 1 /\ sanitizedPlayerAnsArr[1] = <<>>
      ELSE LET result == helper(<<>>, <<>>, num, target, 0, 0, 0)
           IN  IF Len(result) # Len(sanitizedPlayerAnsArr) THEN FALSE
               ELSE \A i \in 1..Len(sanitizedPlayerAnsArr) :
                      Includes(result, sanitizedPlayerAnsArr[i])

---------------------------------------------------------------------------
(* Spiralize Matrix                                                        *)
(* state = the matrix, a sequence of m rows of n numbers                   *)

\* bound of the matrices explored (rows and columns)
MaxSpiralDim == 2
SpiralValues == {1, 2}

\* a sweep that stops after its first cell
SweepFirstCell(data, row, col, dRow, dCol, count) ==
  IF count <= 0 THEN <<>> ELSE <<data[row + 1][col + 1]>>

\* for (let col = l; col <= r; col++) spiral[k++] = data[u][col], and the
\* three other sweeps: the cells from (row, col) on, `count` of them, moving
\* by (dRow, dCol)
RECURSIVE Sweep(_, _, _, _, _, _)
Sweep(data, row, col, dRow, dCol, count) ==
  IF count <= 0 THEN <<>>
  ELSE <<data[row + 1][col + 1]>> \o Sweep(data, row + dRow, col + dCol, dRow, dCol, count - 1)

\* while (!done) { Up; Right; Down; Left }
RECURSIVE SpiralLoop(_, _, _, _, _, _)
SpiralLoop(data, u, d, l, r, spiral) ==
  LET s1 == spiral \o Sweep(data, u, l, 0, 1, r - l + 1)
      u1 == u + 1
  IN  IF u1 > d THEN s1
      ELSE LET s2 == s1 \o Sweep(data, u1, r, 1, 0, d - u1 + 1)
               r1 == r - 1
           IN  IF r1 < l THEN s2
               ELSE LET s3 == s2 \o Sweep(data, d, r1, 0, -1, r1 - l + 1)
                        d1 == d - 1
                    IN  IF d1 < u1 THEN s3
                        ELSE LET s4 == s3 \o Sweep(data, d1, l, -1, 0, d1 - u1 + 1)
                                 l1 == l + 1
                             IN  IF l1 > r1 THEN s4
                                 ELSE SpiralLoop(data, u1, d1, l1, r1, s4)

Spiral(data) == SpiralLoop(data, 0, Len(data) - 1, 0, Len(data[1]) - 1, <<>>)

\* removeBracketsFromArrayString(ans).replace(/\s/g, "").split(",").map(parseInt)
SpiralPlayerAns(a) ==
  LET arr == SplitComma(RemoveWhitespace(removeBracketsFromArrayString(a)))
  IN  [i \in 1..Len(arr) |-> parseInt(arr[i], 0)]

SpiralSolver(data, a) ==
  LET spiral == Spiral(data)
      playerAns == SpiralPlayerAns(a)
  IN  IF Len(spiral) # Len(playerAns) THEN FALSE
      ELSE \A i \in 1..Len(spiral) : NumEq(playerAns[i], spiral[i])

---------------------------------------------------------------------------
(* Generate IP Addresses                                                   *)
(* state = the string of digits                                            *)

\* bound of the digit strings explored
MaxIPLen == 5
IPDigitChars == {"0", "2", "5"}

Dot == <<".">>

\* the four nested loops over a, b, c, d in 1..3, k counting their 81 turns
RECURSIVE IPLoop(_, _, _)
IPLoop(data, k, ret) ==
  IF k >= 81 THEN ret
  ELSE LET a == (k \div 27) + 1
           b == ((k \div 9) % 3) + 1
           c == ((k \div 3) % 3) + 1
           d == (k % 3) + 1
       IN  IF a + b + c + d = Len(data)
           THEN LET A == parseInt(SubSeq(data, 1, a), 10).val
                    B == parseInt(SubSeq(data, a + 1, a + b), 10).val
                    C == parseInt(SubSeq(data, a + b + 1, a + b + c), 10).val
                    D == parseInt(SubSeq(data, a + b + c + 1, a + b + c + d), 10).val
                    ip == toString(A) \o Dot \o toString(B) \o Dot
                            \o toString(C) \o Dot \o toString(D)
                IN  IF A <= 255 /\ B <= 255 /\ C <= 255 /\ D <= 255
                       /\ Len(ip) = Len(data) + 3
                    THEN IPLoop(data, k + 1, Append(ret, ip))
                    ELSE IPLoop(data, k + 1, ret)
           ELSE IPLoop(data, k + 1, ret)

IPRet(data) == IPLoop(data, 0, <<>>)

IsQuote(c) == c = "\"" \/ c = "'"

\* ip.replace(/^(?<quote>['"])([\d.]*)\k<quote>$/g, "$2")
IPStripQuotes(ip) ==
  IF /\ Len(ip) >= 2
     /\ IsQuote(ip[1])
     /\ ip[Len(ip)] = ip[1]
     /\ \A i \in 2..(Len(ip) - 1) : IsDigit(ip[i]) \/ ip[i] = "."
  THEN SubSeq(ip, 2, Len(ip) - 1)
  ELSE ip

IPAnsArr(a) ==
  LET arr == SplitComma(RemoveWhitespace(removeBracketsFromArrayString(a)))
  IN  [i \in 1..Len(arr) |-> IPStripQuotes(arr[i])]

IPSolver(data, a) ==
  LET ret == IPRet(data)
      ansArr == IPAnsArr(a)
  IN  IF Len(ansArr) # Len(ret) THEN FALSE
      ELSE \A i \in 1..Len(ansArr) : Includes(ret, ansArr[i])

---------------------------------------------------------------------------
(* The four kinds whose answer is a list split on ","                      *)

Reverse(l) == [i \in 1..Len(l) |-> l[Len(l) + 1 - i]]

Quoted(str) == <<"\"">> \o str \o <<"\"">>

\* ways of writing the list `items` as an answer, and answers near it
ListAnswersFor(items) ==
  LET quoted == [i \in 1..Len(items) |-> Quoted(items[i])]
  IN  { <<>>,
        <<"[", "]">>,
        Bracketed(Quoted(<<>>)),
        JoinComma(items),
        Bracketed(JoinComma(items)),
        Bracketed(JoinCommaSpace(quoted)),
        Bracketed(JoinComma(Reverse(items))),
        Bracketed(JoinComma(DropLast(items))),
        Bracketed(JoinComma(items \o <<items[1]>>)),
        Bracketed(JoinComma(DropLast(items) \o <<items[1]>>)),
        Bracketed(JoinComma(<<items[1] \o <<"x">> >> \o Tail(items))) }

SpiralShapes == (1..MaxSpiralDim) \X (1..MaxSpiralDim)

SpiralDescExample == <<(<<1, 2, 3>>), <<4, 5, 6>>, <<7, 8, 9>> >>
SpiralDescExampleWide == <<(<<1, 2, 3, 4>>), <<5, 6, 7, 8>>, <<9, 10, 11, 12>> >>

SpiralStates ==
  UNION {[1..sh[1] -> [1..sh[2] -> SpiralValues]] : sh \in SpiralShapes}
  \cup {SpiralDescExample, SpiralDescExampleWide}

IPStates ==
  {d \in SeqsUpTo(IPDigitChars, MaxIPLen) : Len(d) >= 4 /\ IPRet(d) # <<>>}

\* the inputs of the examples in the description
ParenDescExamples ==
  { <<"(", ")", "(", ")", ")", "(", ")">>,
    <<"(", "a", ")", "(", ")", ")", "(", ")">>,
    <<")", "(">> }

ParenStates == (SeqsUpTo(ParenChars, MaxParenLen) \ {<<>>}) \cup ParenDescExamples

\* the inputs of the examples in the description
ExprDescExamples == { <<(<<"1", "2", "3">>), 6>>, <<(<<"1", "0", "5">>), 5>> }

ExprStates ==
  {<<d, t>> : d \in {e \in SeqsUpTo(ExprDigitChars, MaxExprDigits) :
                       e # <<>> /\ e[1] # "0"},
              t \in (0 - MaxExprTarget)..MaxExprTarget}
  \cup ExprDescExamples

IsSpiral == kind = "Spiralize Matrix"
IsIP == kind = "Generate IP Addresses"
IsParen == kind = "Sanitize Parentheses in Expression"
IsExpr == kind = "Find All Valid Math Expressions"

NumbersAsText(nums) == [i \in 1..Len(nums) |-> toString(nums[i])]

\* the list an answer is meant to give, never empty
ExprExpected(data) ==
  LET result == helper(<<>>, <<>>, data[1], data[2], 0, 0, 0)
  IN  IF result = <<>> THEN <<data[1]>> ELSE result

InitList ==
  /\ \/ kind = "Spiralize Matrix" /\ state \in SpiralStates
     \/ kind = "Generate IP Addresses" /\ state \in IPStates
     \/ kind = "Sanitize Parentheses in Expression" /\ state \in ParenStates
     \/ kind = "Find All Valid Math Expressions" /\ state \in ExprStates
  /\ pc = "generated"
  /\ ans = <<>>
  /\ parsed = <<>>
  /\ verdict = FALSE

SolveSpiral ==
  /\ kind = "Spiralize Matrix"
  /\ pc = "generated"
  /\ \E expected \in {NumbersAsText(Spiral(state))} : \E a \in ListAnswersFor(expected) :
       /\ ans' = a
       /\ parsed' = SpiralPlayerAns(a)
       /\ verdict' = SpiralSolver(state, a)
  /\ pc' = "verified"
  /\ UNCHANGED <<kind, state>>

SolveIP ==
  /\ kind = "Generate IP Addresses"
  /\ pc = "generated"
  /\ \E expected \in {IPRet(state)} : \E a \in ListAnswersFor(expected) :
       /\ ans' = a
       /\ parsed' = IPAnsArr(a)
       /\ verdict' = IPSolver(state, a)
  /\ pc' = "verified"
  /\ UNCHANGED <<kind, state>>

SolveSanitize ==
  /\ kind = "Sanitize Parentheses in Expression"
  /\ pc = "generated"
  /\ \E expected \in {SanitizeRes(state)} : \E a \in ListAnswersFor(expected) :
       /\ ans' = a
       /\ parsed' = SanitizeAnsArr(a)
       /\ verdict' = SanitizeSolver(state, a)
  /\ pc' = "verified"
  /\ UNCHANGED <<kind, state>>

SolveExpr ==
  /\ kind = "Find All Valid Math Expressions"
  /\ pc = "generated"
  /\ \E expected \in {ExprExpected(state)} : \E a \in ListAnswersFor(expected) :
       /\ ans' = a
       /\ parsed' = ExprAnsArr(a)
       /\ verdict' = ExprSolver(state, a)
  /\ pc' = "verified"
  /\ UNCHANGED <<kind, state>>

NextList == SolveSpiral \/ SolveIP \/ SolveSanitize \/ SolveExpr

SpecList == InitList /\ [][NextList]_vars

NoElements(a) == a = <<>> \/ a = <<"[", "]">>

\* C9 as stated: in each of the four kinds an answer with no elements
\* ("" or "[]") becomes a list of length 0.
C9_EmptyAnswerIsEmptyList ==
  (pc = "verified" /\ (IsSpiral \/ IsIP \/ IsParen \/ IsExpr) /\ NoElements(ans))
    => Len(parsed) = 0

\* C9 amended: only Find All Valid Math Expressions, which drops the empty
\* entries of the split, makes a list of length 0 of an answer with no
\* elements; Spiralize Matrix makes the one-element list [NaN] of it, and
\* Generate IP Addresses and Sanitize Parentheses in Expression the
\* one-element list [""].
C9_EmptyAnswerPerKind ==
  (pc = "verified" /\ NoElements(ans)) =>
    /\ IsExpr => Len(parsed) = 0
    /\ IsSpiral => (Len(parsed) = 1 /\ parsed[1].nan)
    /\ (IsIP \/ IsParen) => parsed = <<(<<>>)>>

C9_Witness ==
  /\ pc = "verified" /\ IsExpr /\ ans = <<"[", "]">> /\ parsed = <<>>

---------------------------------------------------------------------------
(* Solvers that write to an array.  An array value carries whether it is   *)
(* the very array object found in the contract's state (alias) or a fresh  *)
(* one; what a solver wrote reaches the state only through an alias.  A    *)
(* run of such a solver gives the state as it is after the call (data)     *)
(* and the value the answer is compared with.                              *)

\* the same array object instead of a copy
sliceMutant(arr) == [alias |-> TRUE, arr |-> arr]

\* Array.prototype.slice(): a new array with the same elements
slice(arr) == [alias |-> FALSE, arr |-> arr]

\* the array of the state after the writes to `work`
AfterWrites(original, work, written) == IF work.alias THEN written ELSE original

Max(a, b) == IF a >= b THEN a ELSE b
Min(a, b) == IF a <= b THEN a ELSE b

RECURSIVE MaxOfSeq(_)
MaxOfSeq(q) == IF Len(q) = 1 THEN q[1] ELSE Max(q[1], MaxOfSeq(Tail(q)))

(* Subarray with Maximum Sum *)

\* for (let i = 1; i < nums.length; i++) nums[i] = Math.max(nums[i], nums[i] + nums[i - 1])
RECURSIVE SubarrayLoop(_, _)
SubarrayLoop(nums, i) ==
  IF i >= Len(nums) THEN nums
  ELSE SubarrayLoop([nums EXCEPT ![i + 1] = Max(nums[i + 1], nums[i + 1] + nums[i])], i + 1)

SubarrayRun(data) ==
  LET nums == slice(data)
      written == SubarrayLoop(nums.arr, 1)
  IN  [data |-> AfterWrites(data, nums, written), value |-> MaxOfSeq(written)]

(* Merge Overlapping Intervals *)

\* intervals.sort((a, b) => a[0] - b[0]): stable, by the first number
RECURSIVE InsertByStart(_, _)
InsertByStart(sorted, x) ==
  IF sorted = <<>> THEN <<x>>
  ELSE IF x[1] - Head(sorted)[1] < 0 THEN <<x>> \o sorted
  ELSE <<Head(sorted)>> \o InsertByStart(Tail(sorted), x)

RECURSIVE SortByStart(_)
SortByStart(arr) ==
  IF arr = <<>> THEN <<>>
  ELSE InsertByStart(SortByStart(DropLast(arr)), arr[Len(arr)])

\* for (const interval of intervals) { ... } result.push([start, end])
RECURSIVE MergeLoop(_, _, _, _, _)
MergeLoop(intervals, i, start, end, result) ==
  IF i > Len(intervals) THEN Append(result, <<start, end>>)
  ELSE LET interval == intervals[i]
       IN  IF interval[1] <= end
           THEN MergeLoop(intervals, i + 1, start, Max(end, interval[2]), result)
           ELSE MergeLoop(intervals, i + 1, interval[1], interval[2],
                          Append(result, <<start, end>>))

\* convert2DArrayToString: "[a,b],[c,d]"
convert2DArrayToString(arr) ==
  RemoveWhitespace(JoinComma(
    [i \in 1..Len(arr) |-> Bracketed(JoinComma(NumbersAsText(arr[i])))]))

MergeRun(data) ==
  LET intervals == slice(data)
      sorted == SortByStart(intervals.arr)
      result == MergeLoop(sorted, 1, sorted[1][1], sorted[1][2], <<>>)
  IN  [data |-> AfterWrites(data, intervals, sorted),
       value |-> convert2DArrayToString(result)]

MergeSolver(data, a) ==
  LET sanitizedResult == MergeRun(data).value
      sanitizedAns == RemoveWhitespace(a)
  IN  \/ sanitizedResult = sanitizedAns
      \/ sanitizedResult = removeBracketsFromArrayString(sanitizedAns)

(* Unique Paths in a Grid II *)

\* the two nested loops over obstacleGrid, cell by cell in row-major order
RECURSIVE PathsLoop(_, _, _)
PathsLoop(obstacleGrid, i, j) ==
  IF i >= Len(obstacleGrid) THEN obstacleGrid
  ELSE IF j >= Len(obstacleGrid[1]) THEN PathsLoop(obstacleGrid, i + 1, 0)
  ELSE LET cell ==
             IF obstacleGrid[i + 1][j + 1] = 1 THEN 0
             ELSE IF i = 0 /\ j = 0 THEN 1
             ELSE (IF i > 0 THEN obstacleGrid[i][j + 1] ELSE 0)
                  + (IF j > 0 THEN obstacleGrid[i + 1][j] ELSE 0)
       IN  PathsLoop([obstacleGrid EXCEPT ![i + 1][j + 1] = cell], i, j + 1)

PathsRun(data) ==
  LET rows == [i \in 1..Len(data) |-> slice(data[i])]
      written == PathsLoop([i \in 1..Len(data) |-> rows[i].arr], 0, 0)
  IN  [data |-> [i \in 1..Len(data) |-> AfterWrites(data[i], rows[i], written[i])],
       value |-> written[Len(written)][Len(written[1])]]

(* Minimum Path Sum in a Triangle *)

\* for (let i = n - 2; i > -1; --i) for (let j = 0; j < data[i].length; ++j) ...
RECURSIVE TriangleLoop(_, _, _, _)
TriangleLoop(data, dp, i, j) ==
  IF i <= -1 THEN dp
  ELSE IF j >= Len(data[i + 1]) THEN TriangleLoop(data, dp, i - 1, 0)
  ELSE TriangleLoop(data,
         [dp EXCEPT ![j + 1] = Min(dp[j + 1], dp[j + 2]) + data[i + 1][j + 1]], i, j + 1)

TriangleRun(data) ==
  LET n == Len(data)
      dp == slice(data[n])
      written == TriangleLoop(data, dp.arr, n - 2, 0)
  IN  [data |-> [data EXCEPT ![n] = AfterWrites(data[n], dp, written)],
       value |-> written[1]]

---------------------------------------------------------------------------
(* Solvers of the kinds answered by one integer.  Each ...Expected is the  *)
(* number the solver computes and each ...Solver is its return value.      *)

\* Number.MIN_SAFE_INTEGER, -(2^53 - 1), is beyond the integers TLC has; the
\* solvers only add a price (at most 200) to it and take a maximum with a
\* number that is at least 0, so a very small integer that leaves room for
\* that sum stands for it
MIN_SAFE_INTEGER == -2147483000

(* Find Largest Prime Factor *)

\* while (n % fac === 0) n = Math.round(n / fac)
RECURSIVE DivideOut(_, _)
DivideOut(n, fac) == IF n % fac = 0 THEN DivideOut(n \div fac, fac) ELSE n

\* while (n > (fac - 1) * (fac - 1)) { ...; ++fac }
RECURSIVE PrimeLoop(_, _)
PrimeLoop(n, fac) ==
  IF n > (fac - 1) * (fac - 1) THEN PrimeLoop(DivideOut(n, fac), fac + 1)
  ELSE IF n = 1 THEN fac - 1 ELSE n

PrimeExpected(data) == PrimeLoop(data, 2)
PrimeSolver(data, a) == NumEq(parseInt(a, 10), PrimeExpected(data))

(* Subarray with Maximum Sum *)

SubarrayExpected(data) == SubarrayRun(data).value
SubarraySolver(data, a) == NumEq(parseInt(a, 10), SubarrayExpected(data))

(* Total Ways to Sum, and Total Ways to Sum II *)

\* for (j = part; j <= n; j++) ways[j] += ways[j - part]; ways[0] is ways[1]
\* here, and ways.length is n + 1, so j <= n is j < ways.length
RECURSIVE WaysInner(_, _, _, _)
WaysInner(ways, part, j, n) ==
  IF j >= Len(ways) THEN ways
  ELSE WaysInner([ways EXCEPT ![j + 1] = ways[j + 1] + ways[j - part + 1]], part, j + 1, n)

\* the outer loop, over the parts s[i]
RECURSIVE WaysLoop(_, _, _, _)
WaysLoop(ways, s, i, n) ==
  IF i > Len(s) THEN ways
  ELSE WaysLoop(WaysInner(ways, s[i], s[i], n), s, i + 1, n)

\* const ways = [1]; ways.length = n + 1; ways.fill(0, 1)
WaysInit(n) == [j \in 1..(n + 1) |-> IF j = 1 THEN 1 ELSE 0]

WaysOf(n, s) == WaysLoop(WaysInit(n), s, 1, n)[n + 1]

\* a loop that also takes the part equal to data
TotalWaysExpectedAllParts(data) == WaysOf(data, [i \in 1..data |-> i])

\* for (let i = 1; i < data; ++i): the parts are 1 .. data - 1
TotalWaysExpected(data) == WaysOf(data, [i \in 1..(data - 1) |-> i])
TotalWaysSolver(data, a) == NumEq(parseInt(a, 10), TotalWaysExpected(data))

TotalWaysIIExpected(data) == WaysOf(data[1], data[2])
TotalWaysIISolver(data, a) == NumEq(parseInt(a, 10), TotalWaysIIExpected(data))

(* Array Jumping Game, and Array Jumping Game II *)

\* for (let reach = 0; i < n && i <= reach; ++i) reach = Math.max(i + data[i], reach)
RECURSIVE JumpLoop(_, _, _)
JumpLoop(data, i, reach) ==
  IF i < Len(data) /\ i <= reach
  THEN JumpLoop(data, i + 1, Max(i + data[i + 1], reach))
  ELSE i

JumpSolution(data) == JumpLoop(data, 0, 0) = Len(data)

JumpSolver(data, a) ==
  \/ a = <<"1">> /\ JumpSolution(data)
  \/ a = <<"0">> /\ ~JumpSolution(data)

\* a scan that looks at the index reach only
JumpScanReachOnly(data, i, lastJump, reach, jumpedFrom) ==
  IF i > lastJump /\ i + data[i + 1] > reach
  THEN [reach |-> i + data[i + 1], jumpedFrom |-> i]
  ELSE [reach |-> reach, jumpedFrom |-> jumpedFrom]

\* for (let i = reach; i > lastJump; i--) if (i + data[i] > reach) { ... }
RECURSIVE JumpScan(_, _, _, _, _)
JumpScan(data, i, lastJump, reach, jumpedFrom) ==
  IF i > lastJump
  THEN IF i + data[i + 1] > reach
       THEN JumpScan(data, i - 1, lastJump, i + data[i + 1], i)
       ELSE JumpScan(data, i - 1, lastJump, reach, jumpedFrom)
  ELSE [reach |-> reach, jumpedFrom |-> jumpedFrom]

\* while (reach < n - 1) { ... }
RECURSIVE JumpIILoop(_, _, _, _)
JumpIILoop(data, reach, jumps, lastJump) ==
  IF reach < Len(data) - 1
  THEN LET scan == JumpScan(data, reach, lastJump, reach, -1)
       IN  IF scan.jumpedFrom = -1 THEN 0
           ELSE JumpIILoop(data, scan.reach, jumps + 1, scan.jumpedFrom)
  ELSE jumps

JumpIIExpected(data) == JumpIILoop(data, 0, 0, -1)
JumpIISolver(data, a) == NumEq(parseInt(a, 10), JumpIIExpected(data))

(* Algorithmic Stock Trader I .. IV *)

RECURSIVE StockILoop(_, _, _, _)
StockILoop(data, i, maxCur, maxSoFar) ==
  IF i < Len(data)
  THEN LET cur == Max(0, maxCur + data[i + 1] - data[i])
       IN  StockILoop(data, i + 1, cur, Max(cur, maxSoFar))
  ELSE maxSoFar

StockIExpected(data) == StockILoop(data, 1, 0, 0)
StockISolver(data, a) == toString(StockIExpected(data)) = a

RECURSIVE StockIILoop(_, _, _)
StockIILoop(data, p, profit) ==
  IF p < Len(data)
  THEN StockIILoop(data, p + 1, profit + Max(data[p + 1] - data[p], 0))
  ELSE profit

StockIIExpected(data) == StockIILoop(data, 1, 0)
StockIISolver(data, a) == toString(StockIIExpected(data)) = a

RECURSIVE StockIIILoop(_, _, _, _, _, _)
StockIIILoop(data, i, hold1, hold2, release1, release2) ==
  IF i > Len(data) THEN release2
  ELSE LET price == data[i]
           r2 == Max(release2, hold2 + price)
           h2 == Max(hold2, release1 - price)
           r1 == Max(release1, hold1 + price)
           h1 == Max(hold1, price * (-1))
       IN  StockIIILoop(data, i + 1, h1, h2, r1, r2)

StockIIIExpected(data) == StockIIILoop(data, 1, MIN_SAFE_INTEGER, MIN_SAFE_INTEGER, 0, 0)
StockIIISolver(data, a) == toString(StockIIIExpected(data)) = a

\* an inner loop that updates only the entries of the last transaction
StockIVInnerLastOnly(hold, rele, cur, j) ==
  IF j > 0
  THEN [hold |-> [hold EXCEPT ![j + 1] = Max(hold[j + 1], rele[j] - cur)],
        rele |-> [rele EXCEPT ![j + 1] = Max(rele[j + 1], hold[j + 1] + cur)]]
  ELSE [hold |-> hold, rele |-> rele]

\* for (let j = k; j > 0; --j) { rele[j] = ...; hold[j] = ... }; index 0 is 1 here
RECURSIVE StockIVInner(_, _, _, _)
StockIVInner(hold, rele, cur, j) ==
  IF j > 0
  THEN LET r == Max(rele[j + 1], hold[j + 1] + cur)
           h == Max(hold[j + 1], rele[j] - cur)
       IN  StockIVInner([hold EXCEPT ![j + 1] = h], [rele EXCEPT ![j + 1] = r], cur, j - 1)
  ELSE [hold |-> hold, rele |-> rele]

RECURSIVE StockIVLoop(_, _, _, _, _)
StockIVLoop(prices, k, i, hold, rele) ==
  IF i < Len(prices)
  THEN LET next == StockIVInner(hold, rele, prices[i + 1], k)
       IN  StockIVLoop(prices, k, i + 1, next.hold, next.rele)
  ELSE rele[k + 1]

StockIVExpected(data) ==
  LET k == data[1]
      prices == data[2]
      len == Len(prices)
  IN  IF len < 2 THEN 0
      ELSE IF 2 * k > len THEN StockIILoop(prices, 1, 0)
      ELSE StockIVLoop(prices, k, 0, [i \in 1..(k + 1) |-> MIN_SAFE_INTEGER],
                       [i \in 1..(k + 1) |-> 0])

StockIVSolver(data, a) == NumEq(parseInt(a, 0), StockIVExpected(data))

(* Minimum Path Sum in a Triangle *)

TriangleExpected(data) == TriangleRun(data).value
TriangleSolver(data, a) == NumEq(parseInt(a, 0), TriangleExpected(data))

(* Unique Paths in a Grid I and II *)

\* for (let i = 1; i < n; i++) currentRow[i] += currentRow[i - 1]
RECURSIVE PathsRow(_, _)
PathsRow(currentRow, i) ==
  IF i < Len(currentRow)
  THEN PathsRow([currentRow EXCEPT ![i + 1] = currentRow[i + 1] + currentRow[i]], i + 1)
  ELSE currentRow

\* for (let row = 1; row < m; row++) { ... }
RECURSIVE PathsRows(_, _, _)
PathsRows(currentRow, row, m) ==
  IF row < m THEN PathsRows(PathsRow(currentRow, 1), row + 1, m) ELSE currentRow

PathsIExpected(data) ==
  LET n == data[1]
      m == data[2]
  IN  PathsRows([i \in 1..n |-> 1], 1, m)[n]

PathsISolver(data, a) == NumEq(parseInt(a, 0), PathsIExpected(data))

PathsIIExpected(data) == PathsRun(data).value
PathsIISolver(data, a) == NumEq(parseInt(a, 0), PathsIIExpected(data))

---------------------------------------------------------------------------
(* Verification attempts on contracts answered by one integer, and on      *)
(* Merge Overlapping Intervals.  A contract is attempted any number of     *)
(* times; the state after an attempt is what the solver left in it.        *)

MaxArrayLen == 4
MaxLevels == 3
MaxIntervals == 3
MaxOffset == 4
MaxPathsRows == 2
MaxPathsCols == 3

ArraysOver(S) == SeqsUpTo(S, MaxArrayLen) \ {<<>>}

PrimeStates == 500..(500 + MaxOffset)
SubarrayStates == ArraysOver({-2, 1, 3}) \cup {<<1, -2, 3, 4, -1>>}
TotalWaysStates == 2..(8 + MaxOffset)
TotalWaysIIStates ==
  {<<n, s>> : n \in {10, 11},
              s \in {<<1>>, <<2>>, <<1, 2>>, <<2, 3>>, <<1, 2, 3>>, <<2, 5, 7>>}}
JumpStates == ArraysOver({0, 1, 2}) \cup {<<2, 3, 1, 1, 4>>, <<3, 2, 1, 0, 4>>}
StockStates == ArraysOver({1, 2, 4}) \cup {<<7, 1, 5, 3, 6, 4>>}
StockIVStates ==
  {<<k, prices>> : k \in {1, 2, 3}, prices \in ArraysOver({1, 2, 4})}
  \cup {<<2, <<3, 2, 6, 5, 0, 3>> >>}
TriangleStates ==
  {t \in [1..MaxLevels -> SeqsUpTo({1, 9}, MaxLevels)] :
     \A i \in 1..MaxLevels : Len(t[i]) = i}
  \cup {<<(<<2>>), <<3, 4>>, <<6, 5, 7>>, <<4, 1, 8, 3>> >>}
PathsIStates == {<<n, m>> : n \in 2..(MaxPathsRows + 1), m \in 2..MaxPathsCols}
PathsIIStates ==
  UNION {GridsOfShape(h, w) : h \in 2..MaxPathsRows, w \in 2..MaxPathsCols}
  \cup {<<(<<0, 0, 0>>), <<0, 1, 0>>, <<0, 0, 0>> >>}
MergeIntervals == {<<start, start + len>> : start \in {1, 2, 5}, len \in {1, 3}}
MergeStates ==
  {l \in SeqsUpTo(MergeIntervals, MaxIntervals) : Len(l) = MaxIntervals}
  \cup {<<(<<1, 3>>), <<8, 10>>, <<2, 6>>, <<10, 16>> >>}

Radix10Kinds ==
  {"Find Largest Prime Factor", "Subarray with Maximum Sum", "Total Ways to Sum",
   "Total Ways to Sum II", "Array Jumping Game II"}
NoRadixKinds ==
  {"Algorithmic Stock Trader IV", "Minimum Path Sum in a Triangle",
   "Unique Paths in a Grid I", "Unique Paths in a Grid II"}
ExactTextKinds ==
  {"Algorithmic Stock Trader I", "Algorithmic Stock Trader II",
   "Algorithmic Stock Trader III"}
IntegerKinds == Radix10Kinds \cup NoRadixKinds \cup ExactTextKinds \cup {"Array Jumping Game"}
SolverKinds == IntegerKinds \cup {"Merge Overlapping Intervals"}

StatesOf(k) ==
  CASE k = "Find Largest Prime Factor" -> PrimeStates
    [] k = "Subarray with Maximum Sum" -> SubarrayStates
    [] k = "Total Ways to Sum" -> TotalWaysStates
    [] k = "Total Ways to Sum II" -> TotalWaysIIStates
    [] k = "Array Jumping Game" -> JumpStates
    [] k = "Array Jumping Game II" -> JumpStates
    [] k = "Algorithmic Stock Trader I" -> StockStates
    [] k = "Algorithmic Stock Trader II" -> StockStates
    [] k = "Algorithmic Stock Trader III" -> StockStates
    [] k = "Algorithmic Stock Trader IV" -> StockIVStates
    [] k = "Minimum Path Sum in a Triangle" -> TriangleStates
    [] k = "Unique Paths in a Grid I" -> PathsIStates
    [] k = "Unique Paths in a Grid II" -> PathsIIStates
    [] k = "Merge Overlapping Intervals" -> MergeStates

\* the number an integer kind's solver compares the answer with
Expected(k, data) ==
  CASE k = "Find Largest Prime Factor" -> PrimeExpected(data)
    [] k = "Subarray with Maximum Sum" -> SubarrayExpected(data)
    [] k = "Total Ways to Sum" -> TotalWaysExpected(data)
    [] k = "Total Ways to Sum II" -> TotalWaysIIExpected(data)
    [] k = "Array Jumping Game" -> IF JumpSolution(data) THEN 1 ELSE 0
    [] k = "Array Jumping Game II" -> JumpIIExpected(data)
    [] k = "Algorithmic Stock Trader I" -> StockIExpected(data)
    [] k = "Algorithmic Stock Trader II" -> StockIIExpected(data)
    [] k = "Algorithmic Stock Trader III" -> StockIIIExpected(data)
    [] k = "Algorithmic Stock Trader IV" -> StockIVExpected(data)
    [] k = "Minimum Path Sum in a Triangle" -> TriangleExpected(data)
    [] k = "Unique Paths in a Grid I" -> PathsIExpected(data)
    [] k = "Unique Paths in a Grid II" -> PathsIIExpected(data)

\* codingContractTypesMetadata[k].solver(data, a)
solver(k, data, a) ==
  CASE k = "Find Largest Prime Factor" -> PrimeSolver(data, a)
    [] k = "Subarray with Maximum Sum" -> SubarraySolver(data, a)
    [] k = "Total Ways to Sum" -> TotalWaysSolver(data, a)
    [] k = "Total Ways to Sum II" -> TotalWaysIISolver(data, a)
    [] k = "Array Jumping Game" -> JumpSolver(data, a)
    [] k = "Array Jumping Game II" -> JumpIISolver(data, a)
    [] k = "Algorithmic Stock Trader I" -> StockISolver(data, a)
    [] k = "Algorithmic Stock Trader II" -> StockIISolver(data, a)
    [] k = "Algorithmic Stock Trader III" -> StockIIISolver(data, a)
    [] k = "Algorithmic Stock Trader IV" -> StockIVSolver(data, a)
    [] k = "Minimum Path Sum in a Triangle" -> TriangleSolver(data, a)
    [] k = "Unique Paths in a Grid I" -> PathsISolver(data, a)
    [] k = "Unique Paths in a Grid II" -> PathsIISolver(data, a)
    [] k = "Merge Overlapping Intervals" -> MergeSolver(data, a)

\* the state as the solver leaves it: only these four write to an array
StateAfter(k, data) ==
  CASE k = "Subarray with Maximum Sum" -> SubarrayRun(data).data
    [] k = "Merge Overlapping Intervals" -> MergeRun(data).data
    [] k = "Minimum Path Sum in a Triangle" -> TriangleRun(data).data
    [] k = "Unique Paths in a Grid II" -> PathsRun(data).data
    [] OTHER -> data

RECURSIVE HexText(_)
HexText(n) ==
  IF n < 16 THEN <<HexDigits[n + 1]>>
  ELSE HexText(n \div 16) \o <<HexDigits[(n % 16) + 1]>>

\* the integer e written as an answer, with text around it, and answers near it
IntegerAnswersFor(e) ==
  LET text == toString(e)
  IN  {text, text \o <<"x">>, <<" ">> \o text \o <<" ">>, text \o <<"0">>,
       <<"x">> \o text, toString(e + 1), toString(e - 1), <<>>,
       <<"0", "x">> \o HexText(IF e < 0 THEN 0 - e ELSE e), <<"0", "x", "5">>}

RECURSIVE Spaced(_)
Spaced(str) ==
  IF str = <<>> THEN <<>>
  ELSE IF Head(str) = "," THEN <<",", " ">> \o Spaced(Tail(str))
  ELSE <<Head(str)>> \o Spaced(Tail(str))

\* the merged intervals written as an answer, and answers near them
MergeAnswersFor(data) ==
  LET text == MergeRun(data).value
      unmerged == convert2DArrayToString(data)
  IN  {Bracketed(text), text, Spaced(Bracketed(text)), Bracketed(Bracketed(text)),
       Bracketed(unmerged), text \o <<"x">>, <<>>}

AnswersFor(k, data) ==
  IF k = "Merge Overlapping Intervals" THEN MergeAnswersFor(data)
  ELSE IntegerAnswersFor(Expected(k, data))

InitSolvers ==
  /\ kind \in SolverKinds
  /\ state \in StatesOf(kind)
  /\ pc = "generated"
  /\ ans = <<>>
  /\ parsed = <<>>
  /\ verdict = FALSE

Solve(k) ==
  /\ kind = k
  /\ \E a \in AnswersFor(k, state) :
       /\ ans' = a
       /\ verdict' = solver(k, state, a)
  /\ state' = StateAfter(k, state)
  /\ pc' = "verified"
  /\ UNCHANGED <<kind, parsed>>

NextSolvers == \E k \in SolverKinds : Solve(k)

SpecSolvers == InitSolvers /\ [][NextSolvers]_vars

(* What an answer reads as, said without the parsing code. *)

AfterSpaces(a) ==
  LET first == CHOOSE i \in 1..(Len(a) + 1) :
                 /\ \A j \in 1..(i - 1) : IsSpace(a[j])
                 /\ i = Len(a) + 1 \/ ~IsSpace(a[i])
  IN  SubSeq(a, first, Len(a))

IsNegative(a) == AfterSpaces(a) # <<>> /\ AfterSpaces(a)[1] = "-"

Unsigned(a) ==
  LET t == AfterSpaces(a)
  IN  IF t # <<>> /\ t[1] \in {"+", "-"} THEN Tail(t) ELSE t

\* the length of the longest prefix of u made of characters that satisfy Is
LongestRun(u, Is(_)) ==
  CHOOSE d \in 0..Len(u) :
    /\ \A i \in 1..d : Is(u[i])
    /\ d = Len(u) \/ ~Is(u[d + 1])

\* the number whose digits in the base, most significant first, are vals
RECURSIVE PlaceValue(_, _)
PlaceValue(vals, base) ==
  IF vals = <<>> THEN 0
  ELSE base * PlaceValue(DropLast(vals), base) + vals[Len(vals)]

\* the answer starts, after blanks and a sign, with decimal digits that read e
LeadsWith(a, e) ==
  LET u == Unsigned(a)
      d == LongestRun(u, IsDigit)
      v == PlaceValue([i \in 1..d |-> DigitVal(u[i])], 10)
  IN  d > 0 /\ e = (IF IsNegative(a) THEN 0 - v ELSE v)

HexPrefixed(a) ==
  LET u == Unsigned(a)
  IN  Len(u) >= 2 /\ u[1] = "0" /\ u[2] \in {"x", "X"}

\* the answer starts, after blanks and a sign, with 0x and hex digits that read e
LeadsWithHex(a, e) ==
  LET u == SubSeq(Unsigned(a), 3, Len(Unsigned(a)))
      d == LongestRun(u, IsHexDigit)
      v == PlaceValue([i \in 1..d |-> HexVal(u[i])], 16)
  IN  HexPrefixed(a) /\ d > 0 /\ e = (IF IsNegative(a) THEN 0 - v ELSE v)

\* the answer is exactly the decimal numeral of e, a number that is at least 0
IsNumeralOf(a, e) ==
  /\ a # <<>>
  /\ \A i \in 1..Len(a) : IsDigit(a[i])
  /\ Len(a) > 1 => a[1] # "0"
  /\ PlaceValue([i \in 1..Len(a) |-> DigitVal(a[i])], 10) = e

IsIntegerKind == kind \in IntegerKinds

\* C1: a call of solver(state, answer) leaves the state, nested arrays and
\* all, as it was, and an attempt with the same answer on the state it left
\* returns the same boolean
C1_SolverLeavesStateUnchanged ==
  [][state' = state /\ verdict' = solver(kind, state', ans')]_vars

C1_Witness ==
  /\ pc = "verified"
  /\ kind = "Merge Overlapping Intervals"
  /\ verdict
  /\ \E i, j \in 1..Len(state) : i < j /\ state[i][1] > state[j][1]

\* C10 as stated: for every kind answered by one integer, the answer is
\* accepted exactly when it leads with the expected integer, whatever follows
C10_VerdictByLeadingInteger ==
  (pc = "verified" /\ IsIntegerKind) =>
    (verdict <=> LeadsWith(ans, Expected(kind, state)))

\* C10: the kinds that parse with radix 10 accept an answer exactly when it
\* leads with the expected integer; the kinds that parse without a radix do
\* the same, except that an answer leading with 0x is read as hexadecimal;
\* Algorithmic Stock Trader I-III and Array Jumping Game accept only the
\* exact decimal numeral of the expected integer
C10_VerdictPerKind ==
  (pc = "verified" /\ IsIntegerKind) =>
    LET e == Expected(kind, state)
    IN  /\ kind \in Radix10Kinds => (verdict <=> LeadsWith(ans, e))
        /\ kind \in NoRadixKinds =>
             (verdict <=> IF HexPrefixed(ans) THEN LeadsWithHex(ans, e)
                          ELSE LeadsWith(ans, e))
        /\ kind \in ExactTextKinds \cup {"Array Jumping Game"} =>
             (verdict <=> IsNumeralOf(ans, e))

C10_Witness ==
  /\ pc = "verified"
  /\ kind = "Subarray with Maximum Sum"
  /\ ans = toString(Expected(kind, state)) \o <<"x">>
  /\ verdict

---------------------------------------------------------------------------
(* The helper functions that canonicalize an answer, applied to strings.   *)
(* ans is the string a helper is applied to and parsed is what it returns. *)

MaxCanonLen == 3
CanonChars == {"[", "]", "'", "\"", " ", ",", "a"}

CanonStrings == SeqsUpTo(CanonChars, MaxCanonLen) \cup {<<"[", "\"", "a", "\"", "]">>}

InitCanon ==
  /\ kind = "Helper functions"
  /\ state = <<>>
  /\ pc = "generated"
  /\ ans \in CanonStrings
  /\ parsed = <<>>
  /\ verdict = FALSE

ApplyRemoveBrackets ==
  /\ pc = "generated"
  /\ parsed' = removeBracketsFromArrayString(ans)
  /\ pc' = "removeBracketsFromArrayString"
  /\ UNCHANGED <<kind, state, ans, verdict>>

ApplyRemoveQuotes ==
  /\ pc = "generated"
  /\ parsed' = removeQuotesFromString(ans)
  /\ pc' = "removeQuotesFromString"
  /\ UNCHANGED <<kind, state, ans, verdict>>

\* the three together, as the Sanitize Parentheses solver applies them
ApplyCanonicalize ==
  /\ pc = "generated"
  /\ parsed' = SanitizeAnsArr(ans)
  /\ pc' = "canonicalized"
  /\ UNCHANGED <<kind, state, ans, verdict>>

NextCanon == ApplyRemoveBrackets \/ ApplyRemoveQuotes \/ ApplyCanonicalize

SpecCanon == InitCanon /\ [][NextCanon]_vars

IsQuoteChar(c) == c = "'" \/ c = "\""

\* str without a quote pair around it, when it has a matching one
WithoutMatchingQuotes(str) ==
  IF Len(str) >= 2 /\ IsQuoteChar(str[1]) /\ str[Len(str)] = str[1]
  THEN SubSeq(str, 2, Len(str) - 1)
  ELSE str

\* C11 as stated: removeQuotesFromString removes a leading quote only when
\* the element ends with the same quote character, and returns an element
\* with a quote at one end only, or with different quotes at its ends,
\* unchanged
C11_QuotesStrippedOnlyWhenMatching ==
  pc = "removeQuotesFromString" =>
    (Len(ans) >= 2 => parsed = WithoutMatchingQuotes(ans))

\* str without one leading '[' and, of what is left, one trailing ']'
WithoutOuterBrackets(str) ==
  LET i == IF Len(str) >= 1 /\ str[1] = "[" THEN 1 ELSE 0
      j == IF Len(str) - i >= 1 /\ str[Len(str)] = "]" THEN 1 ELSE 0
  IN  SubSeq(str, 1 + i, Len(str) - j)

IsPlain(str) ==
  \A i \in 1..Len(str) : str[i] \notin {"[", "]", "'", "\"", " "}

\* C12: removeBracketsFromArrayString removes at most one leading '[' and at
\* most one trailing ']' and changes nothing else; bracket removal, whitespace
\* removal and quote removal together leave a string without brackets, quotes
\* and whitespace as it is
C12_BracketsOnceAndPlainUnchanged ==
  /\ pc = "removeBracketsFromArrayString" => parsed = WithoutOuterBrackets(ans)
  /\ (pc = "canonicalized" /\ IsPlain(ans)) => JoinComma(parsed) = ans

C12_Witness ==
  /\ pc = "removeBracketsFromArrayString"
  /\ ans = <<"[", "[", "]">>
  /\ parsed = <<"[">>

---------------------------------------------------------------------------
(* Square Root                                                             *)

\* stands for BigInt(2 ** 332), the least root generated
half == 8

\* randomBigIntExclusive(max): a big integer from 0 up to but not including max
randomBigIntExclusive(max) == 0..(max - 1)

\* the edge cases reach one past the range
SqrtOffsetsMutant(root) ==
  {root + 1, 0 - root} \cup {r + 1 - root : r \in randomBigIntExclusive(root + root)}

\* the offsets generate() can draw for a root: the two edge cases, or any
\* value of randomBigIntExclusive(ans + ans) + 1n - ans
SqrtOffsets(root) ==
  {root, 1 - root} \cup {r + 1 - root : r \in randomBigIntExclusive(root + root)}

\* generate(): [ans.toString(), offset.toString()]
SqrtStates ==
  UNION {{<<toString(r + half), toString(offset)>> : offset \in SqrtOffsets(r + half)} :
           r \in randomBigIntExclusive(half)}

\* BigInt(str) for the decimal text of an integer
BigInt(str) ==
  IF StartsWith(str, "-") THEN 0 - ParseDigits(Tail(str), 10, 0, FALSE).val
  ELSE ParseDigits(str, 10, 0, FALSE).val

SqrtGetData(st) ==
  LET root == BigInt(st[1])
  IN  root * root + BigInt(st[2])

SqrtSolver(st, a) == st[1] = a

IsSqrt == kind = "Square Root"

SqrtAnswers(st) ==
  LET root == BigInt(st[1])
  IN  {toString(root), toString(root + 1), toString(root - 1),
       toString(root) \o <<"n">>, <<"0">> \o toString(root), <<>>}

InitSqrt ==
  /\ kind = "Square Root"
  /\ state \in SqrtStates
  /\ pc = "generated"
  /\ ans = <<>>
  /\ parsed = <<>>
  /\ verdict = FALSE

\* getData(state): the number shown to the player
ShowSqrt ==
  /\ kind = "Square Root"
  /\ pc = "generated"
  /\ parsed' = <<SqrtGetData(state)>>
  /\ pc' = "shown"
  /\ UNCHANGED <<kind, state, ans, verdict>>

SolveSqrt ==
  /\ kind = "Square Root"
  /\ pc = "shown"
  /\ \E a \in SqrtAnswers(state) :
       /\ ans' = a
       /\ verdict' = SqrtSolver(state, a)
  /\ pc' = "verified"
  /\ UNCHANGED <<kind, state, parsed>>

NextSqrt == ShowSqrt \/ SolveSqrt

SpecSqrt == InitSqrt /\ [][NextSqrt]_vars

\* m is the integer nearest to the square root of x: (m - 1/2)^2 < x < (m + 1/2)^2
IsRoundedRoot(m, x) ==
  (2 * m - 1) * (2 * m - 1) < 4 * x /\ 4 * x < (2 * m + 1) * (2 * m + 1)

\* the integers read from the two texts of a state, digit by digit
NumberOf(str) ==
  IF str # <<>> /\ str[1] = "-"
  THEN 0 - PlaceValue([i \in 1..(Len(str) - 1) |-> DigitVal(str[i + 1])], 10)
  ELSE PlaceValue([i \in 1..Len(str) |-> DigitVal(str[i])], 10)

\* C13: for every generated state (root, offset), 1 - root <= offset <= root,
\* so root^2 - root + 1 <= data < root^2 + root + 1 and root is the one
\* integer nearest to the square root of the data shown
C13_RootIsRoundedSquareRoot ==
  (IsSqrt /\ pc # "generated") =>
    LET root == NumberOf(state[1])
        offset == NumberOf(state[2])
        data == parsed[1]
    IN  /\ 1 - root <= offset /\ offset <= root
        /\ data = root * root + offset
        /\ root * root - root + 1 <= data /\ data < root * root + root + 1
        /\ \A m \in 0..(4 * half) : IsRoundedRoot(m, data) <=> m = root

C13_Witness ==
  /\ IsSqrt
  /\ pc = "verified"
  /\ verdict
  /\ NumberOf(state[2]) = 1 - NumberOf(state[1])

---------------------------------------------------------------------------
(* Compression II: LZ Decompression, and Compression III: LZ Compression   *)
(* comprLZDecode, comprLZEncode and comprLZGenerate are defined outside    *)
(* the source at hand and follow the description of the format.            *)

MaxLZLen == 4
LZChars == {"a", "b"}

\* each of the L characters is a copy of the character X places before it
RECURSIVE LZCopy(_, _, _)
LZCopy(plain, L, X) ==
  IF L = 0 THEN plain
  ELSE LZCopy(Append(plain, plain[Len(plain) + 1 - X]), L - 1, X)

\* no decoded text: the input is no encoding
LZNull == [null |-> TRUE, text |-> <<>>]

\* chunks from position i on, alternating; literal says which type is next
RECURSIVE LZDecodeFrom(_, _, _, _)
LZDecodeFrom(compr, i, plain, literal) ==
  IF i > Len(compr) THEN [null |-> FALSE, text |-> plain]
  ELSE IF ~IsDigit(compr[i]) THEN LZNull
  ELSE LET L == DigitVal(compr[i])
       IN  IF literal
           THEN IF i + L > Len(compr) THEN LZNull
                ELSE LZDecodeFrom(compr, i + 1 + L,
                                  plain \o SubSeq(compr, i + 1, i + L), FALSE)
           ELSE IF L = 0 THEN LZDecodeFrom(compr, i + 1, plain, TRUE)
           ELSE IF i + 1 > Len(compr) \/ ~IsDigit(compr[i + 1]) THEN LZNull
           ELSE LET X == DigitVal(compr[i + 1])
                IN  IF X < 1 \/ X > Len(plain) THEN LZNull
                    ELSE LZDecodeFrom(compr, i + 2, LZCopy(plain, L, X), TRUE)

comprLZDecode(compr) == LZDecodeFrom(compr, 1, <<>>, TRUE)

\* the encodings of plain from position pos on (pos characters are encoded),
\* next chunk literal or not; an empty chunk only before a chunk that is not
RECURSIVE LZEncodingsFrom(_, _, _, _)
LZEncodingsFrom(plain, pos, literal, mayBeEmpty) ==
  LET n == Len(plain)
      rest(p, lit) == LZEncodingsFrom(plain, p, lit, TRUE)
      empty == IF mayBeEmpty /\ pos < n
               THEN {<<"0">> \o e : e \in LZEncodingsFrom(plain, pos, ~literal, FALSE)}
               ELSE {}
      literals ==
        UNION {{<<Digits[L + 1]>> \o SubSeq(plain, pos + 1, pos + L) \o e :
                  e \in rest(pos + L, FALSE)} : L \in 1..Min(9, n - pos)}
      backrefs ==
        UNION {{<<Digits[LX[1] + 1], Digits[LX[2] + 1]>> \o e : e \in rest(pos + LX[1], TRUE)} :
                 LX \in {lx \in (1..Min(9, n - pos)) \X (1..Min(9, pos)) :
                           \A k \in 1..lx[1] : plain[pos + k] = plain[pos + k - lx[2]]}}
  IN  IF pos = n THEN (IF mayBeEmpty THEN {<<>>} ELSE {})
      ELSE empty \cup (IF literal THEN literals ELSE backrefs)

LZEncodings(plain) == LZEncodingsFrom(plain, 0, TRUE, TRUE)

\* the length of an encoding of minimum length
LZMinLength(plain) ==
  LET lens == {Len(e) : e \in LZEncodings(plain)}
  IN  CHOOSE m \in lens : \A l \in lens : m <= l

\* comprLZEncode(plain): an encoding of minimum length, whichever it is
comprLZEncode(plain) == {e \in LZEncodings(plain) : Len(e) = LZMinLength(plain)}

\* comprLZGenerate(): a plaintext
comprLZGenerate == SeqsUpTo(LZChars, MaxLZLen) \ {<<>>}

LZExample == <<"5", "a", "a", "a", "b", "b", "4", "5", "0", "7", "2", "3", "a", "b", "b">>
LZExamplePlain ==
  <<"a", "a", "a", "b", "b", "a", "a", "a", "b", "a", "b", "a", "b", "a", "b", "a", "a", "b", "b">>

\* documented encodings: twelve, thirteen and fourteen times "a"
LZDocumented ==
  {<<Repeat("a", 12), <<"3", "a", "a", "a", "9", "1">> >>,
   <<Repeat("a", 13), <<"1", "a", "9", "1", "0", "3", "1">> >>,
   <<Repeat("a", 14), <<"1", "a", "9", "1", "0", "4", "1">> >>}

\* decodes the answer and compares it with the encoded text
LZDecompressSolverSwapped(compr, a) ==
  LET decoded == comprLZDecode(a)
  IN  ~decoded.null /\ compr = decoded.text

LZDecompressSolver(compr, a) ==
  LET decoded == comprLZDecode(compr)
  IN  ~decoded.null /\ a = decoded.text

\* the length has to be less than the encoder's
LZCompressSolverStrict(plain, a) ==
  LET decoded == comprLZDecode(a)
  IN  ~decoded.null /\ decoded.text = plain /\ Len(a) < LZMinLength(plain)

LZCompressSolver(plain, a) ==
  LET decoded == comprLZDecode(a)
  IN  ~decoded.null /\ decoded.text = plain /\ Len(a) <= LZMinLength(plain)

IsLZDecompress == kind = "Compression II: LZ Decompression"
IsLZCompress == kind = "Compression III: LZ Compression"

\* the last character replaced by the other one
LZOtherPlain(plain) ==
  Append(DropLast(plain), IF plain[Len(plain)] = "a" THEN "b" ELSE "a")

\* answers to a decompression contract: the plaintext and texts near it
LZDecompressAnswers(compr, plain) ==
  {plain, DropLast(plain), Append(plain, "a"), compr, <<>>, LZExamplePlain}

\* answers to a compression contract: short encodings of the plaintext and
\* of a text near it, an encoding with an empty chunk added, and other text
LZCompressAnswers(plain) ==
  LET near == {e \in LZEncodings(plain) \cup LZEncodings(LZOtherPlain(plain)) :
                 Len(e) <= LZMinLength(plain) + 2}
  IN  near \cup {Append(e, "0") : e \in comprLZEncode(plain)}
           \cup {DropLast(e) : e \in comprLZEncode(plain)}
           \cup {plain, <<>>}

\* state is the encoded text or the plaintext; for a decompression contract
\* parsed keeps the plaintext that was encoded (none for the example of the
\* description, which is given encoded)
InitLZ ==
  /\ \/ /\ kind = "Compression II: LZ Decompression"
        /\ \/ \E plain \in comprLZGenerate :
                /\ state \in comprLZEncode(plain)
                /\ parsed = plain
           \/ \E doc \in LZDocumented : state = doc[2] /\ parsed = doc[1]
           \/ state = LZExample /\ parsed = <<>>
     \/ /\ kind = "Compression III: LZ Compression"
        /\ state \in comprLZGenerate
        /\ parsed = <<>>
  /\ pc = "generated"
  /\ ans = <<>>
  /\ verdict = FALSE

SolveLZDecompress ==
  /\ kind = "Compression II: LZ Decompression"
  /\ pc = "generated"
  /\ \E a \in LZDecompressAnswers(state, parsed) :
       /\ ans' = a
       /\ verdict' = LZDecompressSolver(state, a)
  /\ pc' = "verified"
  /\ UNCHANGED <<kind, state, parsed>>

SolveLZCompress ==
  /\ kind = "Compression III: LZ Compression"
  /\ pc = "generated"
  /\ \E a \in LZCompressAnswers(state) :
       /\ ans' = a
       /\ verdict' = LZCompressSolver(state, a)
  /\ pc' = "verified"
  /\ UNCHANGED <<kind, state, parsed>>

NextLZ == SolveLZDecompress \/ SolveLZCompress

SpecLZ == InitLZ /\ [][NextLZ]_vars

\* C14: the decoder alternates literal and backreference chunks from a
\* literal one, takes length 0 as an empty chunk and copies a backreference
\* character by character, so that the decompression solver accepts exactly
\* the plaintext that was encoded, and for "5aaabb450723abb" exactly
\* "aaabbaaababababaabb"
C14_LZDecompressAcceptsPlaintext ==
  (IsLZDecompress /\ pc = "verified") =>
    /\ state = LZExample => (verdict <=> ans = LZExamplePlain)
    /\ state # LZExample => (verdict <=> ans = parsed)

C14_Witness ==
  /\ IsLZDecompress
  /\ pc = "verified"
  /\ state = LZExample
  /\ ans = LZExamplePlain
  /\ verdict

\* C15: the compression solver accepts the encoder's own output and any
\* other encoding of the plaintext that is no longer, and rejects every
\* answer that is longer or that encodes another text
C15_LZCompressAcceptsShortEncodings ==
  (IsLZCompress /\ pc = "verified") =>
    \A encodings \in {LZEncodings(state)} :
      \A shortest \in {e \in encodings : \A f \in encodings : Len(e) <= Len(f)} :
        /\ ans = shortest => verdict
        /\ (ans \in encodings /\ Len(ans) <= Len(shortest)) => verdict
        /\ Len(ans) > Len(shortest) => ~verdict
        /\ ans \notin encodings => ~verdict

C15_Witness ==
  /\ IsLZCompress
  /\ pc = "verified"
  /\ verdict
  /\ \E e \in comprLZEncode(state) : e # ans

---------------------------------------------------------------------------
(* HammingCodes: Encoded Binary to Integer                                 *)
(* HammingEncodeProperly and HammingDecode are defined outside the source  *)
(* at hand and follow the description of the extended Hamming code.  A     *)
(* codeword is a sequence of bits; position p of the code is element p + 1 *)

MaxHammingValue == 24

RECURSIVE BitXor(_, _)
BitXor(a, b) ==
  IF a = 0 THEN b
  ELSE IF b = 0 THEN a
  ELSE 2 * BitXor(a \div 2, b \div 2) + ((a + b) % 2)

RECURSIVE IsPowerOfTwo(_)
IsPowerOfTwo(p) == p = 1 \/ (p > 1 /\ p % 2 = 0 /\ IsPowerOfTwo(p \div 2))

\* n.toString(2): most significant bit first
RECURSIVE BinaryOf(_)
BinaryOf(n) == IF n < 2 THEN <<n>> ELSE Append(BinaryOf(n \div 2), n % 2)

\* parseInt(bits, 2)
RECURSIVE BinaryValue(_)
BinaryValue(bits) ==
  IF bits = <<>> THEN 0 ELSE 2 * BinaryValue(DropLast(bits)) + bits[Len(bits)]

\* the data bits laid out from position p on, 0 kept at position 0 and at
\* every power of two for the parity bits
RECURSIVE HammingLayout(_, _)
HammingLayout(data, p) ==
  IF data = <<>> THEN <<>>
  ELSE IF p = 0 \/ IsPowerOfTwo(p) THEN <<0>> \o HammingLayout(data, p + 1)
  ELSE <<Head(data)>> \o HammingLayout(Tail(data), p + 1)

\* the exclusive or of the positions that hold a 1
RECURSIVE HammingSyndrome(_, _)
HammingSyndrome(bits, p) ==
  IF p >= Len(bits) THEN 0
  ELSE BitXor(IF bits[p + 1] = 1 THEN p ELSE 0, HammingSyndrome(bits, p + 1))

\* 1 when the bits of position q on that its parity bit covers hold an odd
\* number of ones
RECURSIVE CoveredParity(_, _, _)
CoveredParity(bits, parityPos, q) ==
  IF q >= Len(bits) THEN 0
  ELSE LET covered == (q \div parityPos) % 2 = 1 /\ q # parityPos
       IN  ((IF covered THEN bits[q + 1] ELSE 0) + CoveredParity(bits, parityPos, q + 1)) % 2

\* the parity bits at the powers of two from parityPos on, each making the
\* number of ones it covers even
RECURSIVE SetParityBits(_, _)
SetParityBits(bits, parityPos) ==
  IF parityPos >= Len(bits) THEN bits
  ELSE SetParityBits([bits EXCEPT ![parityPos + 1] = CoveredParity(bits, parityPos, 1)],
                     2 * parityPos)

RECURSIVE CountOnes(_)
CountOnes(bits) == IF bits = <<>> THEN 0 ELSE Head(bits) + CountOnes(Tail(bits))

\* the parity bit at position 0 covers every bit and is set last
HammingEncodeProperly(n) ==
  LET laid == HammingLayout(BinaryOf(n), 0)
      withParity == SetParityBits(laid, 1)
  IN  [withParity EXCEPT ![1] = CountOnes(withParity) % 2]

\* the bits at the positions that are neither 0 nor a power of two
RECURSIVE HammingDataBits(_, _)
HammingDataBits(bits, p) ==
  IF p >= Len(bits) THEN <<>>
  ELSE IF p = 0 \/ IsPowerOfTwo(p) THEN HammingDataBits(bits, p + 1)
  ELSE <<bits[p + 1]>> \o HammingDataBits(bits, p + 1)

\* the syndrome locates the altered bit, which is put right before the data
\* bits are read
HammingDecode(bits) ==
  LET err == HammingSyndrome(bits, 0)
      fixed == IF err # 0 /\ err < Len(bits)
               THEN [bits EXCEPT ![err + 1] = 1 - bits[err + 1]]
               ELSE bits
  IN  BinaryValue(HammingDataBits(fixed, 0))

\* the bit after the chosen one is altered as well
HammingAlterTwo(bits, index) ==
  [i \in 1..Len(bits) |-> IF i = index + 1 \/ i = ((index + 1) % Len(bits)) + 1
                          THEN 1 - bits[i] ELSE bits[i]]

\* _buildArray[_randomIndex] = _buildArray[_randomIndex] == "0" ? "1" : "0"
HammingAlter(bits, index) == [bits EXCEPT ![index + 1] = 1 - bits[index + 1]]

BitsAsText(bits) == [i \in 1..Len(bits) |-> Digits[bits[i] + 1]]
TextAsBits(str) == [i \in 1..Len(str) |-> DigitVal(str[i])]

HammingDecodeSolver(data, a) == NumEq(parseInt(a, 10), HammingDecode(TextAsBits(data)))

IsHammingDecode == kind = "HammingCodes: Encoded Binary to Integer"

\* the state is the codeword of an integer, one bit of it altered or none;
\* parsed keeps the integer
InitHamming ==
  /\ kind = "HammingCodes: Encoded Binary to Integer"
  /\ \E n \in 2..MaxHammingValue :
       /\ parsed = <<n>>
       /\ \E _buildArray \in {HammingEncodeProperly(n)} :
            \/ state = BitsAsText(_buildArray)
            \/ \E _randomIndex \in 0..(Len(_buildArray) - 1) :
                 state = BitsAsText(HammingAlter(_buildArray, _randomIndex))
  /\ pc = "generated"
  /\ ans = <<>>
  /\ verdict = FALSE

HammingAnswers(n, data) ==
  {toString(n), toString(n + 1), toString(n) \o <<"x">>, data, <<>>,
   toString(BinaryValue(TextAsBits(data)))}

SolveHamming ==
  /\ kind = "HammingCodes: Encoded Binary to Integer"
  /\ pc = "generated"
  /\ \E a \in HammingAnswers(parsed[1], state) :
       /\ ans' = a
       /\ verdict' = HammingDecodeSolver(state, a)
  /\ pc' = "verified"
  /\ UNCHANGED <<kind, state, parsed>>

NextHamming == SolveHamming

SpecHamming == InitHamming /\ [][NextHamming]_vars

\* C16: for every integer n and every codeword got from the extended Hamming
\* code of n by altering no bit or one bit at any position, HammingDecode
\* returns n, and the solver accepts the decimal text of n
C16_HammingDecodesAlteredCodeword ==
  (IsHammingDecode /\ pc = "verified") =>
    /\ HammingDecode(TextAsBits(state)) = parsed[1]
    /\ ans = toString(parsed[1]) => verdict
    /\ verdict => LeadsWith(ans, parsed[1])

\* the documented codeword of 21 with its last bit altered
C16_Witness ==
  /\ IsHammingDecode
  /\ pc = "verified"
  /\ state = <<"1", "0", "0", "1", "1", "0", "1", "0", "1", "0">>
  /\ ans = <<"2", "1">>
  /\ verdict

---------------------------------------------------------------------------
(* Sanitize Parentheses in Expression: the search on its own              *)
(* state = the string, parsed = the list res the search leaves            *)

InitParen ==
  /\ kind = "Sanitize Parentheses in Expression"
  /\ state \in ParenStates
  /\ pc = "generated"
  /\ ans = <<>>
  /\ parsed = <<>>
  /\ verdict = FALSE

\* const res = []; dfs(0, 0, left, right, data, "", res)
SanitizeSearch ==
  /\ pc = "generated"
  /\ parsed' = SanitizeRes(state)
  /\ pc' = "searched"
  /\ UNCHANGED <<kind, state, ans, verdict>>

NextParen == SanitizeSearch

SpecParen == InitParen /\ [][NextParen]_vars

IsParenthesis(c) == c = "(" \/ c = ")"

ParenPositions(str) == {i \in 1..Len(str) : IsParenthesis(str[i])}

CountOf(str, c, n) == Cardinality({i \in 1..n : str[i] = c})

\* every ")" closes an earlier "(" and every "(" is closed
IsBalanced(str) ==
  /\ \A n \in 1..Len(str) : CountOf(str, ")", n) <= CountOf(str, "(", n)
  /\ CountOf(str, "(", Len(str)) = CountOf(str, ")", Len(str))

\* str without the characters at the positions of deleted
RECURSIVE Without(_, _, _)
Without(str, deleted, i) ==
  IF i > Len(str) THEN <<>>
  ELSE IF i \in deleted THEN Without(str, deleted, i + 1)
  ELSE <<str[i]>> \o Without(str, deleted, i + 1)

\* the sets of parentheses whose deletion leaves a balanced string
BalancingDeletions(str) ==
  {deleted \in SUBSET ParenPositions(str) : IsBalanced(Without(str, deleted, 1))}

\* the least number of parentheses to delete
MinDeletions(str) ==
  LET sizes == {Cardinality(deleted) : deleted \in BalancingDeletions(str)}
  IN  CHOOSE n \in sizes : \A m \in sizes : n <= m

MinimalBalanced(str) ==
  LET least == MinDeletions(str)
  IN  {Without(str, deleted, 1) :
         deleted \in {d \in BalancingDeletions(str) : Cardinality(d) = least}}

ElementsOf(list) == {list[i] : i \in 1..Len(list)}

NoDuplicates(list) == \A i, j \in 1..Len(list) : list[i] = list[j] => i = j

\* C17: for every string of "(", ")" and letters the list res of the search
\* is never empty, has no duplicates, holds only balanced strings of length
\* len(data) - (left + right), and holds every balanced string obtainable
\* by deleting the least possible number of parentheses
C17_ResIsAllMinimalBalanced ==
  (IsParen /\ pc = "searched") =>
    \A lr \in {ParenExcess(state, 1, 0, 0)} :
      /\ parsed # <<>>
      /\ NoDuplicates(parsed)
      /\ \A i \in 1..Len(parsed) :
           /\ IsBalanced(parsed[i])
           /\ Len(parsed[i]) = Len(state) - (lr[1] + lr[2])
      /\ lr[1] + lr[2] = MinDeletions(state)
      /\ ElementsOf(parsed) = MinimalBalanced(state)

C17_Witness ==
  /\ IsParen
  /\ pc = "searched"
  /\ state = <<"(", ")", "(", ")", ")", "(", ")">>
  /\ Len(parsed) = 2
  /\ ElementsOf(parsed) = { <<"(", ")", "(", ")", "(", ")">>, <<"(", "(", ")", ")", "(", ")">> }

\* C18: the Sanitize Parentheses verdict is order-insensitive and exact: an
\* answer is accepted if and only if its elements, whitespace and quotes
\* removed, are a permutation of the minimal balanced strings (as many
\* elements as there are strings, and the same strings)
C18_AcceptedIffPermutation ==
  (IsParen /\ pc = "verified") =>
    \A minimal \in {MinimalBalanced(state)} :
      verdict <=> (Len(parsed) = Cardinality(minimal) /\ ElementsOf(parsed) = minimal)

\* a reordering of the list of the search is accepted
C18_Witness ==
  /\ IsParen
  /\ pc = "verified"
  /\ state = <<"(", ")", "(", ")", ")", "(", ")">>
  /\ Len(parsed) = 2
  /\ parsed = Reverse(SanitizeRes(state))
  /\ verdict

---------------------------------------------------------------------------
(* Find All Valid Math Expressions: the search on its own                  *)
(* state = <<digits, target>>, parsed = the list result of the search      *)

\* helper with the push replaced by a record of the leaf: the set of
\* <<path, evaluated>> over every call that reaches pos === num.length
RECURSIVE helperLeavesLoop(_, _, _, _, _, _)
RECURSIVE helperLeaves(_, _, _, _, _)
helperLeaves(path, num, pos, evaluated, multed) ==
  IF pos = Len(num) THEN {<<path, evaluated>>}
  ELSE helperLeavesLoop(path, num, pos, evaluated, multed, pos)

helperLeavesLoop(path, num, pos, evaluated, multed, i) ==
  IF i >= Len(num) THEN {}
  ELSE IF i # pos /\ num[pos + 1] = "0" THEN {}
  ELSE LET cur == parseInt(SubSeq(num, pos + 1, i + 1), 0).val
           shown == toString(cur)
           leaves ==
             IF pos = 0
             THEN helperLeaves(path \o shown, num, i + 1, cur, cur)
             ELSE helperLeaves(path \o <<"+">> \o shown, num, i + 1, evaluated + cur, cur)
                  \cup helperLeaves(path \o <<"-">> \o shown, num, i + 1,
                                    evaluated - cur, 0 - cur)
                  \cup helperLeaves(path \o <<"*">> \o shown, num, i + 1,
                                    evaluated - multed + multed * cur, multed * cur)
       IN  leaves \cup helperLeavesLoop(path, num, pos, evaluated, multed, i + 1)

InitExpr ==
  /\ kind = "Find All Valid Math Expressions"
  /\ state \in ExprStates
  /\ pc = "generated"
  /\ ans = <<>>
  /\ parsed = <<>>
  /\ verdict = FALSE

\* const result = []; helper(result, "", num, target, 0, 0, 0)
ExprSearch ==
  /\ pc = "generated"
  /\ parsed' = helper(<<>>, <<>>, state[1], state[2], 0, 0, 0)
  /\ pc' = "searched"
  /\ UNCHANGED <<kind, state, ans, verdict>>

NextExpr == ExprSearch

SpecExpr == InitExpr /\ [][NextExpr]_vars

ExprOperators == {"+", "-", "*"}

\* the digits with the operator ops[i] written after digit i, for i in cuts
RECURSIVE ExprText(_, _, _, _)
ExprText(num, cuts, ops, i) ==
  IF i > Len(num) THEN <<>>
  ELSE <<num[i]>> \o (IF i \in cuts THEN <<ops[i]>> ELSE <<>>)
       \o ExprText(num, cuts, ops, i + 1)

\* no group of digits has a leading zero, unless the group is "0"
WellGrouped(num, cuts) ==
  \A start \in {1} \cup {c + 1 : c \in cuts} :
    num[start] = "0" => (start = Len(num) \/ start \in cuts)

\* the value of an expression text: sum is the value of the terms closed so
\* far, term the signed product of the factors of the open term, n the
\* number being read
RECURSIVE ScanValue(_, _, _, _, _)
ScanValue(text, i, sum, term, n) ==
  IF i > Len(text) THEN sum + term * n
  ELSE IF text[i] = "*" THEN ScanValue(text, i + 1, sum, term * n, 0)
  ELSE IF text[i] = "+" THEN ScanValue(text, i + 1, sum + term * n, 1, 0)
  ELSE IF text[i] = "-" THEN ScanValue(text, i + 1, sum + term * n, 0 - 1, 0)
  ELSE ScanValue(text, i + 1, sum, term, 10 * n + DigitVal(text[i]))

ExprValue(text) == ScanValue(text, 1, 0, 1, 0)

\* every expression over the digits, in order, with well-formed groups
AllExpressions(num) ==
  UNION {{ExprText(num, cuts, ops, 1) : ops \in [cuts -> ExprOperators]} :
           cuts \in {c \in SUBSET (1..(Len(num) - 1)) : WellGrouped(num, c)}}

ValidExpressions(num, target) ==
  {text \in AllExpressions(num) : ExprValue(text) = target}

\* C19: the helper produces exactly the expressions that cut the digits into
\* groups without a leading zero (unless the group is "0"), put "+", "-"
\* or "*" between the groups and evaluate, multiplication first, to the
\* target; at every leaf evaluated is the value of path; no expression is
\* produced twice
C19_HelperFindsExactlyValidExpressions ==
  (IsExpr /\ pc = "searched") =>
    /\ ElementsOf(parsed) = ValidExpressions(state[1], state[2])
    /\ NoDuplicates(parsed)
    /\ \A leaf \in helperLeaves(<<>>, state[1], 0, 0, 0) : leaf[2] = ExprValue(leaf[1])

C19_Witness ==
  /\ IsExpr
  /\ pc = "searched"
  /\ state = <<(<<"1", "0", "5">>), 5>>
  /\ parsed = << <<"1", "*", "0", "+", "5">>, <<"1", "0", "-", "5">> >>

\* C20: the Math Expressions solver accepts an answer only if it contains
\* all the valid expressions: the set of the submitted expressions equals
\* the set of the valid expressions, so an answer that omits one (repeating
\* another in its place) or adds an invalid one is rejected
C20_AcceptedOnlyWithAllValidExpressions ==
  (IsExpr /\ pc = "verified" /\ verdict) =>
    ElementsOf(parsed) = ValidExpressions(state[1], state[2])

---------------------------------------------------------------------------
(* Algorithmic Stock Trader IV against the trades themselves               *)

IsStockIV == kind = "Algorithmic Stock Trader IV"

\* a set of days read in order as buy, sell, buy, sell, ...: the day is a
\* selling day when an even number of days of the set are not after it
IsSellDay(days, day) == Cardinality({d \in days : d <= day}) % 2 = 0

\* what the trades of days earn from day i on
RECURSIVE TradeProfit(_, _, _)
TradeProfit(prices, days, i) ==
  IF i > Len(prices) THEN 0
  ELSE (IF i \notin days THEN 0
        ELSE IF IsSellDay(days, i) THEN prices[i] ELSE 0 - prices[i])
       + TradeProfit(prices, days, i + 1)

\* at most k transactions, each a buying day and a later selling day, the
\* next one bought after the previous one is sold
TradePlans(prices, k) ==
  {days \in SUBSET (1..Len(prices)) :
     Cardinality(days) % 2 = 0 /\ Cardinality(days) <= 2 * k}

MaxTradeProfit(prices, k) ==
  LET profits == {TradeProfit(prices, days, 1) : days \in TradePlans(prices, k)}
  IN  CHOOSE best \in profits : \A p \in profits : p <= best

\* the hold/release loops, run whatever k is
StockIVDynamic(prices, k) ==
  StockIVLoop(prices, k, 0, [i \in 1..(k + 1) |-> MIN_SAFE_INTEGER], [i \in 1..(k + 1) |-> 0])

\* C21: for every price list and every k >= 1 the value the Stock Trader IV
\* solver expects is the greatest profit of at most k transactions that do
\* not overlap, and whenever k > len/2 the sum of the positive adjacent
\* differences is the value the hold/release loops give for that k
C21_StockIVExpectsMaxProfit ==
  IsStockIV =>
    \A k \in {state[1]} : \A prices \in {state[2]} :
      /\ StockIVExpected(state) = MaxTradeProfit(prices, k)
      /\ (Len(prices) >= 2 /\ 2 * k > Len(prices)) =>
           StockIILoop(prices, 1, 0) = StockIVDynamic(prices, k)
      /\ pc = "verified" =>
           (verdict <=> IF HexPrefixed(ans) THEN LeadsWithHex(ans, MaxTradeProfit(prices, k))
                        ELSE LeadsWith(ans, MaxTradeProfit(prices, k)))

C21_Witness ==
  /\ IsStockIV
  /\ pc = "verified"
  /\ state = <<3, <<1, 2, 1, 4>> >>
  /\ ans = <<"4">>
  /\ verdict

---------------------------------------------------------------------------
(* Total Ways to Sum against the sums themselves                           *)

IsTotalWays == kind = "Total Ways to Sum"

\* the sums of n written with the largest part first, no part above largest
RECURSIVE SumsOf(_, _)
SumsOf(n, largest) ==
  IF n = 0 THEN {<<>>}
  ELSE UNION {{<<first>> \o rest : rest \in SumsOf(n - first, first)} :
                first \in 1..Min(n, largest)}

RECURSIVE SumOfSeq(_)
SumOfSeq(parts) == IF parts = <<>> THEN 0 ELSE Head(parts) + SumOfSeq(Tail(parts))

\* an unordered sum of positive integers, written largest part first
IsUnorderedSum(parts, n) ==
  /\ \A i \in 1..Len(parts) : parts[i] >= 1
  /\ \A i \in 1..(Len(parts) - 1) : parts[i] >= parts[i + 1]
  /\ SumOfSeq(parts) = n

WaysToSum(n) == {parts \in SumsOf(n, n) : Len(parts) >= 2}

\* C22: for every N >= 2 the value the Total Ways to Sum solver expects is
\* the number of ways to write N as an unordered sum of at least two
\* positive integers, the partitions of N without the one of a single
\* part; for N = 4 it is 4
C22_TotalWaysCountsSums ==
  IsTotalWays =>
    \A sums \in {SumsOf(state, state)} :
      /\ \A parts \in sums : IsUnorderedSum(parts, state)
      /\ TotalWaysExpected(state) = Cardinality(WaysToSum(state))
      /\ TotalWaysExpected(state) = Cardinality(sums) - 1
      /\ state = 4 => TotalWaysExpected(state) = 4
      /\ pc = "verified" => (verdict <=> LeadsWith(ans, Cardinality(WaysToSum(state))))

C22_Witness ==
  /\ IsTotalWays
  /\ pc = "verified"
  /\ state = 4
  /\ ans = <<"4">>
  /\ verdict

---------------------------------------------------------------------------
(* Array Jumping Game II, one pass of the while loop at a time             *)
(* state = the array, parsed = <<reach, jumps, lastJump>>                  *)

IsJumpII == kind = "Array Jumping Game II"

InitJumpII ==
  /\ kind = "Array Jumping Game II"
  /\ state \in JumpStates
  /\ pc = "generated"
  /\ ans = <<>>
  /\ parsed = <<0, 0, -1>>
  /\ verdict = FALSE

\* one pass of while (reach < n - 1) { ... }: the scan, then either
\* jumps = 0; break or lastJump = jumpedFrom; jumps++
JumpIIPass ==
  /\ pc \in {"generated", "looping"}
  /\ parsed[1] < Len(state) - 1
  /\ \E scan \in {JumpScan(state, parsed[1], parsed[3], parsed[1], -1)} :
       IF scan.jumpedFrom = -1
       THEN /\ parsed' = <<scan.reach, 0, parsed[3]>>
            /\ pc' = "broken"
       ELSE /\ parsed' = <<scan.reach, parsed[2] + 1, scan.jumpedFrom>>
            /\ pc' = "looping"
  /\ UNCHANGED <<kind, state, ans, verdict>>

\* the loop condition fails, or the loop was left by break: return jumps === parseInt(ans, 10), for the
\* answer that writes the number of jumps
JumpIIReturn ==
  /\ \/ pc \in {"generated", "looping"} /\ ~(parsed[1] < Len(state) - 1)
     \/ pc = "broken"
  /\ pc' = "compared"
  /\ \E a \in {toString(parsed[2])} :
       /\ ans' = a
       /\ verdict' = JumpIISolver(state, a)
  /\ UNCHANGED <<kind, state, parsed>>

NextJumpII == JumpIIPass \/ JumpIIReturn

SpecJumpII == InitJumpII /\ [][NextJumpII]_vars /\ WF_vars(NextJumpII)

\* the indices 0 < stops < n - 1 visited in order between the first and the
\* last index make a route when no jump is longer than the array allows
JumpFrom(data, stops, i) ==
  LET later == {j \in stops \cup {Len(data) - 1} : j > i}
      next == CHOOSE j \in later : \A other \in later : j <= other
  IN  next - i <= data[i + 1]

IsRoute(data, stops) == \A i \in stops \cup {0} : JumpFrom(data, stops, i)

Routes(data) == {stops \in SUBSET (1..(Len(data) - 2)) : IsRoute(data, stops)}

\* the least number of jumps of a route, 0 when there is no route or no
\* jump to make
MinJumps(data) ==
  IF Len(data) < 2 \/ Routes(data) = {} THEN 0
  ELSE LET counts == {Cardinality(stops) + 1 : stops \in Routes(data)}
       IN  CHOOSE least \in counts : \A c \in counts : least <= c

JumpIICompared ==
  (IsJumpII /\ pc = "compared") =>
    /\ parsed[2] = MinJumps(state)
    /\ parsed[2] = JumpIIExpected(state)
    /\ Len(state) >= 2 => ((parsed[2] = 0) <=> ~JumpSolution(state))
    /\ Len(state) >= 2 => (JumpSolution(state) <=> Routes(state) # {})

\* C23: for every array of non-negative jump lengths the Array Jumping Game
\* II loop ends (every pass that does not break moves reach forward), the
\* value it expects is the least number of jumps from index 0 to the last
\* index, or 0 when the last index cannot be reached, and for a length of
\* at least 2 it is 0 exactly when the Array Jumping Game solver decides the
\* last index is unreachable
C23_JumpIIEndsWithMinJumps ==
  /\ []JumpIICompared
  /\ [][pc' = "looping" => parsed'[1] > parsed[1]]_vars
  /\ <>(pc = "compared")

C23_Witness ==
  /\ IsJumpII
  /\ pc = "compared"
  /\ state = <<2, 3, 1, 1, 4>>
  /\ parsed[2] = 2
  /\ verdict

---------------------------------------------------------------------------
(* Spiralize Matrix, one sweep at a time                                   *)
(* state = the matrix, parsed = the solver's u, d, l, r and spiral         *)

\* bound of the matrices swept (rows and columns)
MaxSpiralSide == 4

IsSpiralKind == kind = "Spiralize Matrix"

\* the m x n matrix that holds 1 .. m*n row by row, so that a value names
\* its cell
NumberedMatrix(m, n) == [i \in 1..m |-> [j \in 1..n |-> (i - 1) * n + j]]

InitSweeps ==
  /\ kind = "Spiralize Matrix"
  /\ \E m \in 1..MaxSpiralSide, n \in 1..MaxSpiralSide : state = NumberedMatrix(m, n)
  /\ pc = "generated"
  /\ ans = <<>>
  /\ parsed = [u |-> 0, d |-> Len(state) - 1, l |-> 0, r |-> Len(state[1]) - 1,
               spiral |-> <<>>]
  /\ verdict = FALSE

\* // Up: the top row, then if (++u > d) done = true
SweepUp ==
  /\ pc \in {"generated", "up"}
  /\ parsed' = [parsed EXCEPT
       !.spiral = @ \o Sweep(state, parsed.u, parsed.l, 0, 1, parsed.r - parsed.l + 1),
       !.u = @ + 1]
  /\ pc' = IF parsed'.u > parsed'.d THEN "done" ELSE "right"
  /\ UNCHANGED <<kind, state, ans, verdict>>

\* // Right: the right column, then if (--r < l) done = true
SweepRight ==
  /\ pc = "right"
  /\ parsed' = [parsed EXCEPT
       !.spiral = @ \o Sweep(state, parsed.u, parsed.r, 1, 0, parsed.d - parsed.u + 1),
       !.r = @ - 1]
  /\ pc' = IF parsed'.r < parsed'.l THEN "done" ELSE "down"
  /\ UNCHANGED <<kind, state, ans, verdict>>

\* // Down: the bottom row backwards, then if (--d < u) done = true
SweepDown ==
  /\ pc = "down"
  /\ parsed' = [parsed EXCEPT
       !.spiral = @ \o Sweep(state, parsed.d, parsed.r, 0, -1, parsed.r - parsed.l + 1),
       !.d = @ - 1]
  /\ pc' = IF parsed'.d < parsed'.u THEN "done" ELSE "left"
  /\ UNCHANGED <<kind, state, ans, verdict>>

\* // Left: the left column upwards, then if (++l > r) done = true
SweepLeft ==
  /\ pc = "left"
  /\ parsed' = [parsed EXCEPT
       !.spiral = @ \o Sweep(state, parsed.d, parsed.l, -1, 0, parsed.d - parsed.u + 1),
       !.l = @ + 1]
  /\ pc' = IF parsed'.l > parsed'.r THEN "done" ELSE "up"
  /\ UNCHANGED <<kind, state, ans, verdict>>

\* after the loop: the comparison, length first and then entry by entry,
\* with a parsed answer that is spiral, spiral backwards or spiral without
\* its last entry
SpiralCompare ==
  /\ pc = "done"
  /\ \E playerAns \in {parsed.spiral, Reverse(parsed.spiral),
                        DropLast(parsed.spiral)} :
       /\ ans' = playerAns
       /\ verdict' = (Len(parsed.spiral) = Len(playerAns)
                       /\ \A i \in 1..Len(parsed.spiral) :
                            parsed.spiral[i] = playerAns[i])
  /\ pc' = "verified"
  /\ UNCHANGED <<kind, state, parsed>>

NextSweeps == SweepUp \/ SweepRight \/ SweepDown \/ SweepLeft \/ SpiralCompare

\* the loop body always runs on: fairness of the four sweeps
SpecSweeps ==
  InitSweeps /\ [][NextSweeps]_vars
  /\ WF_vars(SweepUp \/ SweepRight \/ SweepDown \/ SweepLeft)

\* the cell, <<row, column>> from 0, that holds value in a numbered matrix
CellOf(value, n) == <<(value - 1) \div n, (value - 1) % n>>

InMatrix(cell, m, n) == cell[1] \in 0..(m - 1) /\ cell[2] \in 0..(n - 1)

\* right, down, left, up, and the turn to the right of each
Ahead(cell, dir) ==
  CASE dir = "right" -> <<cell[1], cell[2] + 1>>
    [] dir = "down" -> <<cell[1] + 1, cell[2]>>
    [] dir = "left" -> <<cell[1], cell[2] - 1>>
    [] dir = "up" -> <<cell[1] - 1, cell[2]>>

TurnRight(dir) ==
  CASE dir = "right" -> "down" [] dir = "down" -> "left"
    [] dir = "left" -> "up" [] dir = "up" -> "right"

\* from cell i on, heading dir, the walk goes straight while the cell ahead
\* is in the matrix and not yet visited, and otherwise turns right
RECURSIVE KeepsRight(_, _, _, _, _)
KeepsRight(cells, m, n, i, dir) ==
  IF i >= Len(cells) THEN TRUE
  ELSE LET straight == Ahead(cells[i], dir)
           free == InMatrix(straight, m, n) /\ \A j \in 1..i : cells[j] # straight
           heading == IF free THEN dir ELSE TurnRight(dir)
       IN  /\ cells[i + 1] = Ahead(cells[i], heading)
           /\ KeepsRight(cells, m, n, i + 1, heading)

\* a walk is a clockwise spiral when it starts in the top left corner
\* heading right and keeps right
IsClockwiseSpiral(cells, m, n) ==
  /\ cells # <<>> /\ cells[1] = <<0, 0>>
  /\ KeepsRight(cells, m, n, 1, "right")

SpiralCells == [i \in 1..Len(parsed.spiral) |-> CellOf(parsed.spiral[i], Len(state[1]))]

\* the list is complete when the loop is left
SpiralSwept ==
  (IsSpiralKind /\ pc \in {"done", "verified"}) =>
    \A m \in {Len(state)} : \A n \in {Len(state[1])} :
      /\ Len(parsed.spiral) = m * n
      /\ NoDuplicates(parsed.spiral)
      /\ ElementsOf(SpiralCells) = (0..(m - 1)) \X (0..(n - 1))
      /\ IsClockwiseSpiral(SpiralCells, m, n)
      /\ parsed.spiral = Spiral(state)
      /\ pc = "verified" => (verdict <=> ans = parsed.spiral)

\* while sweeping, the rows u..d and the columns l..r that remain are inside
\* the matrix and not empty, so every read is of a cell of the matrix
SweepInside ==
  (IsSpiralKind /\ pc \in {"generated", "up", "right", "down", "left"}) =>
    /\ 0 <= parsed.u /\ parsed.u <= parsed.d /\ parsed.d <= Len(state) - 1
    /\ 0 <= parsed.l /\ parsed.l <= parsed.r /\ parsed.r <= Len(state[1]) - 1

\* the sweeps follow one another in the order up, right, down, left, and
\* the loop is left after the first sweep that makes two bounds cross
SweepOrder ==
  pc' # "verified" =>
    /\ pc' = "done" <=> (parsed'.u > parsed'.d \/ parsed'.l > parsed'.r)
    /\ pc' # "done" =>
         pc' = CASE pc \in {"generated", "up"} -> "right"
                 [] pc = "right" -> "down"
                 [] pc = "down" -> "left"
                 [] pc = "left" -> "up"

\* C24: for every m x n matrix, a single row, a single column and non-square
\* shapes included, the spiral loop ends, sweeps in the order top row, right
\* column, bottom row, left column and stops at the first boundary
\* crossing; the list holds every cell exactly once (length m*n) in
\* clockwise spiral order, and no index outside the matrix is read
C24_SpiralVisitsEveryCellOnce ==
  /\ []SpiralSwept
  /\ []SweepInside
  /\ [][SweepOrder]_vars
  /\ <>(pc \in {"done", "verified"})

C24_Witness ==
  /\ IsSpiralKind
  /\ pc = "verified"
  /\ state = NumberedMatrix(3, 4)
  /\ parsed.spiral = <<1, 2, 3, 4, 8, 12, 11, 10, 9, 5, 6, 7>>
  /\ ans = parsed.spiral
  /\ verdict

---------------------------------------------------------------------------
(* Compression I: RLE Compression, the generator's loop                    *)
(* state = plain as built so far, parsed = <<length, odd>> where odd tells *)
(* whether the number of passes of the loop made so far is odd             *)

\* bounds of the generator explored: the length drawn (50..99 in the code)
\* and the run length drawn (0..14 in the code)
MaxGenLength == 4
MaxGenRun == 3

\* const length = ...; let plain = ""
InitRLEGen ==
  /\ kind = "Compression I: RLE Compression"
  /\ state = <<>>
  /\ pc = "generating"
  /\ ans = <<>>
  /\ \E length \in 2..MaxGenLength : parsed = <<length, 0>>
  /\ verdict = FALSE

\* one pass of while (plain.length < length): n is 1, 2, Math.floor(10 *
\* Math.random()), which can be 0, or 10 + ...; c = comprGenChar();
\* plain += c.repeat(n)
RLEGenPass ==
  /\ pc = "generating"
  /\ Len(state) < parsed[1]
  /\ \E n \in 0..MaxGenRun, c \in PlainChars :
       state' = state \o Repeat(c, n)
  /\ parsed' = <<parsed[1], 1 - parsed[2]>>
  /\ UNCHANGED <<kind, pc, ans, verdict>>

\* the loop condition fails: return plain.substring(0, length)
RLEGenReturn ==
  /\ pc = "generating"
  /\ ~(Len(state) < parsed[1])
  /\ state' = SubSeq(state, 1, parsed[1])
  /\ pc' = "generated"
  /\ UNCHANGED <<kind, ans, parsed, verdict>>

NextRLEGen == RLEGenPass \/ RLEGenReturn

\* the generator keeps running: a pass or the return is taken whenever one
\* is possible; nothing is assumed about the numbers drawn
SpecRLEGen == InitRLEGen /\ [][NextRLEGen]_vars /\ WF_vars(NextRLEGen)

\* C25: the randomized loop of the RLE generator is capped, so generate()
\* ends for every sequence of draws, also when the run length drawn is 0
\* again and again
C25_RLEGeneratorAlwaysEnds == <>(pc = "generated")

---------------------------------------------------------------------------
(* Proper 2-Coloring of a Graph, the generator                             *)
(* state = <<v, edges>> as returned, parsed = what was drawn on the way    *)

\* Math.floor(Math.random() * 5) + 3: the sizes of the partite sets
PartSizeLeast == 3
PartSizeCount == 5
PartSizes == PartSizeLeast..(PartSizeLeast + PartSizeCount - 1)

\* bound of the cross edges drawn
MaxCrossEdges == 2

\* the cross edges [i, n + j] in the order of the two loops, of which the
\* draws explored take i and j below 2
CrossEdgesInOrder(n) == << <<0, n>>, <<0, n + 1>>, <<1, n>>, <<1, n + 1>> >>

CrossEdgeDraws(n) ==
  {edges \in SubSeqsOf(CrossEdgesInOrder(n)) : Len(edges) <= MaxCrossEdges}

\* the vertices drawn for the additional edge
ExtraEnds(n, m) == {0, 1, n, n + 1, n + m - 1}

\* edges.includes([a, b]): the argument is a new array, and includes
\* compares arrays by identity, so no element of edges is ever equal to it
includes(edges, pair) == FALSE

\* if (a > b) swap; if (a != b && !edges.includes([a, b])) edges.push([a, b])
AddRandomEdge(edges, a, b) ==
  LET lo == Min(a, b)
      hi == Max(a, b)
  IN  IF lo # hi /\ ~includes(edges, <<lo, hi>>) THEN Append(edges, <<lo, hi>>)
      ELSE edges

\* a shuffle that leaves the first element in every place
shuffleOverwriting(array, draws, i) == [k \in 1..Len(array) |-> array[1]]

\* shuffle(array): for (i = length - 1; i > 0; i--) swap array[i] and
\* array[j], j = draws[i] being the number drawn in 0..i
RECURSIVE shuffle(_, _, _)
shuffle(array, draws, i) ==
  IF i > 0
  THEN shuffle([array EXCEPT ![i + 1] = array[draws[i] + 1],
                             ![draws[i] + 1] = array[i + 1]], draws, i - 1)
  ELSE array

\* every sequence of draws for an array of len elements
AllDraws(len) == {draws \in [1..(len - 1) -> 0..(len - 1)] : \A i \in 1..(len - 1) : draws[i] <= i}

\* the sequences of draws explored for the vertex names: always i, always
\* 0, always i - 1, always the half of i
VertexDraws(len) ==
  { [i \in 1..(len - 1) |-> i], [i \in 1..(len - 1) |-> 0],
    [i \in 1..(len - 1) |-> i - 1], [i \in 1..(len - 1) |-> i \div 2] }

\* edges[i] = [vertexShuffler[edges[i][0]], vertexShuffler[edges[i][1]]],
\* lower number first
Relabelled(edges, vertexShuffler) ==
  [i \in 1..Len(edges) |->
     LET x == vertexShuffler[edges[i][1] + 1]
         y == vertexShuffler[edges[i][2] + 1]
     IN  IF x > y THEN <<y, x>> ELSE <<x, y>>]

InitColoringGen ==
  /\ kind = "Proper 2-Coloring of a Graph"
  /\ state = <<>>
  /\ pc = "start"
  /\ ans = <<>>
  /\ parsed = <<>>
  /\ verdict = FALSE

\* generate()
GenerateColoring ==
  /\ pc = "start"
  /\ \E n \in PartSizes, m \in PartSizes :
       \E cross \in CrossEdgeDraws(n), a \in ExtraEnds(n, m), b \in ExtraEnds(n, m),
          vertexDraws \in VertexDraws(n + m) :
         LET edges == AddRandomEdge(cross, a, b)
             vertexShuffler == shuffle([i \in 1..(n + m) |-> i - 1], vertexDraws, n + m - 1)
             renamed == Relabelled(edges, vertexShuffler)
         IN  \E edgeDraws \in AllDraws(Len(renamed)) :
               /\ state' = <<n + m, shuffle(renamed, edgeDraws, Len(renamed) - 1)>>
               /\ parsed' = [n |-> n, m |-> m, cross |-> cross, edges |-> edges,
                             vertexShuffler |-> vertexShuffler]
  /\ pc' = "generated"
  /\ UNCHANGED <<kind, ans, verdict>>

NextColoringGen == GenerateColoring

SpecColoringGen == InitColoringGen /\ [][NextColoringGen]_vars

\* the edges of a list can be 2-coloured: only their ends matter
EdgesBipartite(edges) ==
  LET ends == UNION {{edges[i][1], edges[i][2]} : i \in 1..Len(edges)}
  IN  \E c \in [ends -> {0, 1}] : \A i \in 1..Len(edges) : c[edges[i][1]] # c[edges[i][2]]

\* the list without its i-th entry
WithoutEntry(edges, i) == SubSeq(edges, 1, i - 1) \o SubSeq(edges, i + 1, Len(edges))

\* the entries whose removal leaves a bipartite graph
BipartiteRemovals(edges) == {i \in 1..Len(edges) : EdgesBipartite(WithoutEntry(edges, i))}

Occurrences(list, x) == Cardinality({i \in 1..Len(list) : list[i] = x})

IsPermutationOfVertices(names, v) ==
  /\ Len(names) = v
  /\ ElementsOf(names) = 0..(v - 1)

\* what the generator returns, whatever is meant by the removal of an edge:
\* the size, the shape of the edges, and the way the list is made of the
\* renamed cross edges of two partite sets and at most one more edge
GeneratedShape ==
  \A v \in {state[1]} : \A edges \in {state[2]} :
    /\ 6 <= v /\ v <= 14
    /\ v = parsed.n + parsed.m
    /\ \A i \in 1..Len(edges) :
         0 <= edges[i][1] /\ edges[i][1] < edges[i][2] /\ edges[i][2] < v
    /\ IsPermutationOfVertices(parsed.vertexShuffler, v)
    /\ LET left == {parsed.vertexShuffler[i] : i \in 1..parsed.n}
           crosses(e) == (e[1] \in left) # (e[2] \in left)
       IN  /\ Len(edges) \in {Len(parsed.cross), Len(parsed.cross) + 1}
           /\ Cardinality({i \in 1..Len(edges) : ~crosses(edges[i])}) <= 1
           /\ \A e \in ElementsOf(parsed.cross) :
                \E i \in 1..Len(edges) :
                  /\ crosses(edges[i])
                  /\ {edges[i][1], edges[i][2]}
                       = {parsed.vertexShuffler[e[1] + 1], parsed.vertexShuffler[e[2] + 1]}

\* C26 as stated: every state [v, edges] the generator produces has
\* 6 <= v <= 14 and edges [a,b] with 0 <= a < b < v made of the renamed
\* cross edges of a bipartite graph plus zero or one more edge, the
\* renaming being a permutation of 0..v-1, and has at most one edge whose
\* removal leaves a bipartite graph
C26_AtMostOneRemovableEdge ==
  (IsColoring /\ pc = "generated") =>
    /\ GeneratedShape
    /\ Cardinality(BipartiteRemovals(state[2])) <= 1

\* C26: as above, but what holds of the removal is that taking away at
\* most one edge leaves a bipartite graph: the graph is bipartite already
\* or becomes so by the removal of some edge, and several edges may each
\* do that
C26_BipartiteAfterOneRemoval ==
  (IsColoring /\ pc = "generated") =>
    /\ GeneratedShape
    /\ EdgesBipartite(state[2]) \/ BipartiteRemovals(state[2]) # {}

\* an odd cycle through the additional edge, on the largest graph
C26_Witness ==
  /\ IsColoring
  /\ pc = "generated"
  /\ state[1] = 14
  /\ Len(state[2]) = Len(parsed.cross) + 1
  /\ ~EdgesBipartite(state[2])
  /\ BipartiteRemovals(state[2]) # {}

\* C27: the edge list the generator returns never holds the same edge
\* twice, the additional edge being appended only when it is not already
\* among the cross edges
C27_NoEdgeTwice ==
  (IsColoring /\ pc = "generated") => NoDuplicates(state[2])

----------------------------------------------------------------------------
(* Work/CreateProgramWork.ts: creating a program on the home computer      *)

IsCreateProgram == kind = "CREATE_PROGRAM"

\* CompletedProgramName.bruteSsh and a second program that is never worked on
bruteSsh == <<"B", "r", "u", "t", "e", "S", "S", "H", ".", "e", "x", "e">>
nuke == <<"N", "U", "K", "E", ".", "e", "x", "e">>

IncSuffix == <<"%", "-", "I", "N", "C">>

\* a percentage is written with two decimals; progress is counted in
\* thirds of a hundredth of a percent of the program's creation time, so
\* that no progress value lies exactly halfway between two hundredths
Hundred == 100

\* unitNeeded(): this.getProgram().create?.time ?? 0
unitNeeded == 3 * Hundred * Hundred

\* CONSTANTS.MilliPerCycle * skillMult for the positive skill multipliers
\* of the model, in progress units per cycle
UnitRates == {9999, 10000, 12000}

MaxCycles == 2
MaxCyclesWorked == 4
MaxWorks == 2

\* String.prototype.startsWith and endsWith
startsWith(s, prefix) ==
  Len(prefix) <= Len(s) /\ SubSeq(s, 1, Len(prefix)) = prefix

endsWith(s, suffix) ==
  Len(suffix) <= Len(s)
    /\ SubSeq(s, Len(s) - Len(suffix) + 1, Len(s)) = suffix

\* programFile.split("-")
RECURSIVE SplitDash(_, _, _)
SplitDash(s, i, cur) ==
  IF i > Len(s) THEN <<cur>>
  ELSE IF s[i] = "-" THEN <<cur>> \o SplitDash(s, i + 1, <<>>)
  ELSE SplitDash(s, i + 1, Append(cur, s[i]))

RECURSIVE DigitsValue(_)
DigitsValue(s) ==
  IF s = <<>> THEN 0
  ELSE 10 * DigitsValue(DropLast(s)) + DigitVal(s[Len(s)])

AllDigits(s) == \A i \in 1..Len(s) : IsDigit(s[i])

\* Number(text) in hundredths, for the texts a program list can hold here:
\* the empty text is 0, digits with at most two decimals are their value,
\* anything else is NaN
Number(s) ==
  LET dots == {i \in 1..Len(s) : s[i] = "."}
  IN IF s = <<>> THEN Num(0)
     ELSE IF dots = {} THEN
       IF AllDigits(s) THEN Num(Hundred * DigitsValue(s)) ELSE NaN
     ELSE IF Cardinality(dots) > 1 THEN NaN
     ELSE LET d == CHOOSE i \in dots : TRUE
              whole == SubSeq(s, 1, d - 1)
              frac == SubSeq(s, d + 1, Len(s))
          IN IF Len(s) = 1 \/ ~AllDigits(whole) \/ ~AllDigits(frac)
                \/ Len(frac) > 2
             THEN NaN
             ELSE Num(Hundred * DigitsValue(whole)
                      + (IF Len(frac) = 1 THEN 10 * DigitsValue(frac)
                         ELSE DigitsValue(frac)))

\* (num / den).toFixed(2) for num >= 0 and den > 0: the nearest hundredth
toFixed(num, den) ==
  LET h == (2 * Hundred * num + den) \div (2 * den)
  IN NatToString(h \div Hundred) \o <<".">>
       \o <<Digits[((h % Hundred) \div 10) + 1], Digits[(h % 10) + 1]>>

\* programName + "-" + perc + "%-INC"
incompleteName(programName, unitCompleted) ==
  programName \o <<"-">> \o toFixed(Hundred * unitCompleted, unitNeeded)
    \o IncSuffix

\* programs.splice(i, 1)
splice(programs, i) ==
  SubSeq(programs, 1, i - 1) \o SubSeq(programs, i + 1, Len(programs))

\* the constructor's loop over the home computer's programs, from index i
\* (counted from 1): an incomplete entry of the program gives back its
\* progress and is spliced out, after which ++i passes over the entry that
\* moved into its place; an entry that does not split into three parts or
\* whose percentage is not in [0, 100) ends the loop
RECURSIVE constructor(_, _, _, _)
constructor(programName, programs, i, unitCompleted) ==
  IF i > Len(programs)
  THEN [programs |-> programs, unitCompleted |-> unitCompleted]
  ELSE IF startsWith(programs[i], programName)
            /\ endsWith(programs[i], IncSuffix)
  THEN LET res == SplitDash(programs[i], 1, <<>>)
       IN IF Len(res) # 3
          THEN [programs |-> programs, unitCompleted |-> unitCompleted]
          ELSE LET percComplete == Number(DropLast(res[2]))
               IN IF percComplete.nan \/ percComplete.val < 0
                     \/ percComplete.val >= Hundred * Hundred
                  THEN [programs |-> programs,
                        unitCompleted |-> unitCompleted]
                  ELSE constructor(programName, splice(programs, i), i + 1,
                         (percComplete.val * unitNeeded)
                            \div (Hundred * Hundred))
  ELSE constructor(programName, programs, i + 1, unitCompleted)

\* BaseServer.pushProgram(program): the program is pushed onto the list
pushProgram(programs, program) == Append(programs, program)

\* a process that forgets the progress made before the call
processFromZero(work, cycles, unitRate) ==
  [work EXCEPT !.cyclesWorked = cycles, !.unitCompleted = unitRate * cycles]

\* process(cycles): the work after the call, unitRate being
\* CONSTANTS.MilliPerCycle * skillMult
process(work, cycles, unitRate) ==
  [work EXCEPT !.cyclesWorked = @ + cycles,
               !.unitCompleted = @ + unitRate * cycles]

\* a finish that writes the incomplete entry on every cancellation
finishAlwaysWrites(work, programs, cancelled) ==
  IF ~cancelled THEN pushProgram(programs, work.programName)
  ELSE pushProgram(programs,
         incompleteName(work.programName, work.unitCompleted))

\* finish(cancelled): the home computer's programs after the call
finish(work, programs, cancelled) ==
  IF ~cancelled THEN pushProgram(programs, work.programName)
  ELSE IF ~Includes(programs, work.programName)
  THEN pushProgram(programs,
         incompleteName(work.programName, work.unitCompleted))
  ELSE programs

\* the home computer before any work of the session: nothing, another
\* program, the program itself (bought), or an entry a cancelled work left
InitialPrograms ==
  { <<>>, <<nuke>>, <<bruteSsh>>,
    <<incompleteName(bruteSsh, unitNeeded \div 2)>>,
    <<nuke, incompleteName(bruteSsh, 1)>> }

NoWork ==
  [programName |-> bruteSsh, unitCompleted |-> 0, cyclesWorked |-> 0,
   works |-> 0]

InitCreateProgram ==
  /\ kind = "CREATE_PROGRAM"
  /\ state \in InitialPrograms
  /\ pc = "idle"
  /\ ans = "none"
  /\ parsed = NoWork
  /\ verdict = FALSE

\* new CreateProgramWork({ programName, singularity })
StartWork ==
  /\ IsCreateProgram
  /\ pc = "idle"
  /\ parsed.works < MaxWorks
  /\ \E c \in {constructor(bruteSsh, state, 1, 0)} :
       /\ state' = c.programs
       /\ parsed' = [programName |-> bruteSsh,
                     unitCompleted |-> c.unitCompleted,
                     cyclesWorked |-> 0,
                     works |-> parsed.works + 1]
  /\ pc' = "working"
  /\ ans' = "constructor"
  /\ verdict' = FALSE
  /\ UNCHANGED kind

\* work.process(cycles), returning unitCompleted >= unitNeeded()
ProcessCycles(cycles) ==
  /\ IsCreateProgram
  /\ pc = "working"
  /\ parsed.cyclesWorked + cycles <= MaxCyclesWorked
  /\ \E unitRate \in UnitRates :
       \E w \in {process(parsed, cycles, unitRate)} :
         /\ parsed' = w
         /\ verdict' = (w.unitCompleted >= unitNeeded)
  /\ ans' = "process"
  /\ UNCHANGED <<kind, state, pc>>

ProcessCall == \E cycles \in 0..MaxCycles : ProcessCycles(cycles)

ProcessBusy == \E cycles \in 1..MaxCycles : ProcessCycles(cycles)

\* work.finish(true)
FinishCancelled ==
  /\ IsCreateProgram
  /\ pc = "working"
  /\ state' = finish(parsed, state, TRUE)
  /\ pc' = "idle"
  /\ ans' = "cancelled"
  /\ UNCHANGED <<kind, parsed, verdict>>

\* work.finish(false), once process has returned true
FinishCompleted ==
  /\ IsCreateProgram
  /\ pc = "working"
  /\ ans = "process"
  /\ verdict
  /\ state' = finish(parsed, state, FALSE)
  /\ pc' = "idle"
  /\ ans' = "completed"
  /\ UNCHANGED <<kind, parsed, verdict>>

NextCreateProgram ==
  \/ StartWork
  \/ ProcessCall
  \/ FinishCancelled
  \/ FinishCompleted

SpecCreateProgram == InitCreateProgram /\ [][NextCreateProgram]_vars

\* one work that is processed and never finished by hand
NextProcess ==
  \/ StartWork
  \/ ProcessCall

SpecProcess ==
  InitCreateProgram /\ [][NextProcess]_vars
    /\ WF_vars(StartWork) /\ WF_vars(ProcessBusy)


\* the home computer's incomplete entries of a program
IncompleteEntries(programs, programName) ==
  {i \in 1..Len(programs) :
     startsWith(programs[i], programName) /\ endsWith(programs[i], IncSuffix)}

\* C28: whatever works for one program are started, processed and
\* cancelled, the home computer holds at most one incomplete entry of the
\* program: a cancellation leaves one, written with the progress of the
\* work, and constructing the next work takes every such entry away and
\* gives unitCompleted the written percentage of unitNeeded()
C28_AtMostOneIncompleteEntry ==
  IsCreateProgram =>
    /\ Cardinality(IncompleteEntries(state, bruteSsh)) <= 1
    /\ (ans = "cancelled" /\ ~Includes(state, bruteSsh)) =>
         \A i \in IncompleteEntries(state, bruteSsh) :
           state[i] = incompleteName(bruteSsh, parsed.unitCompleted)
    /\ ans = "constructor" => IncompleteEntries(state, bruteSsh) = {}


\* what process returned last is the comparison of the progress with the need
ProcessReturnsCompletion ==
  (IsCreateProgram /\ ans = "process") =>
    (verdict <=> parsed.unitCompleted >= unitNeeded)

\* a call of process lowers neither counter, and after a call that returned
\* true the next call returns true
ProcessNeverGoesBack ==
  (IsCreateProgram /\ ans' = "process") =>
    /\ parsed'.cyclesWorked >= parsed.cyclesWorked
    /\ parsed'.unitCompleted >= parsed.unitCompleted
    /\ (ans = "process" /\ verdict) => verdict'

\* C29: over the calls of process with cycles >= 0 and a positive rate,
\* cyclesWorked and unitCompleted never decrease, process returns true
\* exactly when unitCompleted >= unitNeeded() after the update, true is
\* followed by true only, and calls with cycles >= 1 lead to true
C29_ProcessAdvancesToCompletion ==
  /\ []ProcessReturnsCompletion
  /\ [][ProcessNeverGoesBack]_vars
  /\ <>(ans = "process" /\ verdict)

\* four single cycles at the lowest rate, the third still short of the need
C29_Witness ==
  /\ IsCreateProgram
  /\ ans = "process"
  /\ verdict
  /\ parsed.cyclesWorked = 4
  /\ parsed.unitCompleted = 39996
  /\ 29997 < unitNeeded

\* entries of the list that are incomplete entries, in order
RECURSIVE IncompleteOnly(_)
IncompleteOnly(programs) ==
  IF programs = <<>> THEN <<>>
  ELSE IF endsWith(Head(programs), IncSuffix)
  THEN <<Head(programs)>> \o IncompleteOnly(Tail(programs))
  ELSE IncompleteOnly(Tail(programs))

\* how often a name occurs in the list
TimesIn(programs, name) ==
  Cardinality({i \in 1..Len(programs) : programs[i] = name})

\* the effect of a finish on the home computer's programs
FinishEffect ==
  /\ (pc = "working" /\ ans' = "completed") =>
       /\ Includes(state', parsed.programName)
       /\ TimesIn(state', parsed.programName)
            = TimesIn(state, parsed.programName) + 1
       /\ IncompleteOnly(state') = IncompleteOnly(state)
  /\ (pc = "working" /\ ans' = "cancelled") =>
       /\ TimesIn(state', parsed.programName)
            = TimesIn(state, parsed.programName)
       /\ ~Includes(state, parsed.programName) =>
            /\ Len(state') = Len(state) + 1
            /\ SubSeq(state', 1, Len(state)) = state
            /\ startsWith(state'[Len(state')], parsed.programName)
            /\ endsWith(state'[Len(state')], IncSuffix)
       /\ Includes(state, parsed.programName) => state' = state

=============================================================================
